---- MODULE Spec2Model ----
(***************************************************************************)
(* Signaling / session negotiation of the dsm application.                 *)
(*                                                                         *)
(*   WebRTCService        src/src/utils/deviceInfo.ts  (lines 163-597)     *)
(*   HTTPSignalingServer  src/unnamed/part_002                             *)
(*                                                                         *)
(* Every device runs one WebRTCService singleton and one                   *)
(* HTTPSignalingServer.  An async method of the service is a task that is  *)
(* suspended at its awaits; one action of the model is one run of the      *)
(* event loop: a synchronous prefix of a method, or the resumption of a    *)
(* task when the promise it awaits settles.  An await of an already        *)
(* settled promise is resumed in a microtask, before any other event, and  *)
(* is therefore part of the same action.                                   *)
(***************************************************************************)
EXTENDS Bags, FiniteSets, Integers, Naturals, Sequences, TLC

\* ------------------------------------------------------------------ bounds
MaxOps     == 3   \* stimuli: user calls of startCall/acceptCall/rejectCall/endCall
                  \* and events raised by the media collaborator
MaxFaults  == 1   \* failures injected by the media collaborator / the network
MaxStreams == 2   \* streams getUserMedia hands out
MaxConns   == 2   \* connections the signaling server accepts
MaxZeroconfOps == 4   \* calls of ZeroconfService and discovery events
MaxServerOps == 4     \* calls of start and stop of the signaling server

\* ------------------------------------------------------------- the devices
Procs       == {"A", "B"}          \* devices that run the application
Unreachable == "X"                 \* an address that refuses every connection
Devices     == Procs \cup {Unreachable}
NoDevice    == "null"              \* remoteDevice === null

\* Error messages of the source
CallInProgress  == "Call already in progress"
NoIncomingCall  == "No incoming call to accept"
MediaAccess     == "Failed to access camera/microphone"
CallRejected    == "Call was rejected"
CollabError     == "collaborator error"   \* an Error rejected by react-native-webrtc
NullDeref       == "TypeError"            \* this.peerConnection is null at a call

VARIABLES
  webrtcService,  \* [Procs -> fields of the WebRTCService singleton]
  rtc,            \* [Procs -> Seq of RTCPeerConnection objects created so far]
  tasks,          \* [Procs -> bag of suspended async calls]
  errLog,         \* [Procs -> Seq of messages given to callbacks.onError]
  thrown,         \* [Procs -> rejection of the last API call, "" if none]
  stopCount,      \* [stream -> number of times its tracks were stopped]
  nextStream,     \* streams handed out by getUserMedia so far
  sentLog,        \* set of POST /signaling requests issued (history)
  appliedLog,     \* set of remote descriptions applied (history)
  emitted,        \* [Procs -> [kind -> number of POSTs issued]]
  ops, faults,    \* budgets used
  last,           \* the event the last step handled (history)
  \* --- one connection accepted by HTTPSignalingServer (handleConnection)
  req,            \* the request the client writes: method, path, body
  wire,           \* the part of its text that has not arrived yet
  requestData,    \* the buffer of the 'data' listener
  served,         \* Seq of what each dispatch did (out) on how much text (len)
  conns,          \* connections accepted so far
  \* --- ZeroconfService and the deviceStore it fills (part_004 532-886)
  zeroconf,                 \* this.zeroconf !== null
  initializationAttempted,
  listening,                \* the native device listeners are attached
  callbacks,                \* an onResolved callback is registered
  selfServiceIdentifiers,   \* Set of identifiers
  selfServiceIdentifierMap, \* [name -> Set of identifiers], {} when absent
  devices,                  \* deviceStore.devices, in insertion order
  published,                \* services the native module advertises (history)
  remembered,               \* those published since the last cleanup (history)
  reported,                 \* Seq of devices given to onResolved (history)
  zops,                     \* budget used
  zlast,                    \* the event the last step handled (history)
  \* --- the life cycle of HTTPSignalingServer (part_002 26-80)
  server,         \* this.server: a reference into listeners, 0 is null
  isRunning,
  port,
  listeners,      \* Seq of the servers TcpSocket.createServer has made
  serverErrors,   \* number of calls of callbacks.onError (history)
  lops,           \* budget used
  llast,          \* the event the last step handled (history)
  \* --- SignalingStore (part_001 16-71)
  messages,       \* [device id -> Seq of messages], << >> when absent
  storeListeners, \* this.listeners: [device id -> Seq of listeners]
  notified,       \* the listeners the last step called, in order (history)
  gops,           \* budget used
  glast           \* the event the last step handled (history)

svars == <<webrtcService, rtc, tasks, errLog, thrown, stopCount, nextStream,
           sentLog, appliedLog, emitted, ops, faults, last>>

hvars == <<req, wire, requestData, served, conns>>
zvars == <<zeroconf, initializationAttempted, listening, callbacks,
           selfServiceIdentifiers, selfServiceIdentifierMap, devices, published,
           remembered, reported, zops, zlast>>
lvars == <<server, isRunning, port, listeners, serverErrors, lops, llast>>
gvars == <<messages, storeListeners, notified, gops, glast>>
vars  == <<svars, hvars, zvars, lvars, gvars>>

\* what the steps of one component leave alone
notSession == <<hvars, zvars, lvars, gvars>>
notHttp    == <<svars, zvars, lvars, gvars>>
notZeroconf == <<svars, hvars, lvars, gvars>>
notServer  == <<svars, hvars, zvars, gvars>>
notSignalingStore == <<svars, hvars, zvars, lvars>>

Kinds == {"offer", "answer", "ice-candidate", "reject"}

\* ---------------------------------------------------------- data and helpers
\* private fields of WebRTCService; peerConnection is a reference into rtc[p]
\* (0 is null), localStream a stream id (0 is null)
InitService ==
  [peerConnection |-> 0, localStream |-> 0, callState |-> "idle",
   isInitiator |-> FALSE, remoteDevice |-> NoDevice]

\* a fresh RTCPeerConnection: signaling state stable, no descriptions
NewPC == [open |-> TRUE, loc |-> "none", rem |-> "none"]
ClosedPC == [open |-> FALSE, loc |-> "none", rem |-> "none"]

NoTask == [op |-> "", at |-> "", dev |-> NoDevice, kind |-> "", pc |-> 0, net |-> ""]
Task(op, at) == [NoTask EXCEPT !.op = op, !.at = at]

TasksOf(p) == BagToSet(tasks[p])
AddTask(b, t) == b (+) SetToBag({t})
DelTask(b, t) == b (-) SetToBag({t})

\* the object a task called into is still usable
PCOpen(p, id) == id # 0 /\ id <= Len(rtc[p]) /\ rtc[p][id].open

\* setCallState (deviceInfo.ts 579-582)
setCallState(s, state) == [s EXCEPT !.callState = state]

\* track.stop() on every track of a stream
StopTracks(sc, stream) ==
  IF stream = 0 THEN sc ELSE [sc EXCEPT ![stream] = @ + 1]

\* (variant: the stream is stopped but the reference to it is kept)
endCall_keepsStream(s) ==
  [s EXCEPT !.peerConnection = 0, !.callState = "idle",
            !.remoteDevice = NoDevice, !.isInitiator = FALSE]

\* endCall (deviceInfo.ts 375-394): the service fields after the call
endCall(s) ==
  [s EXCEPT !.localStream = 0, !.peerConnection = 0, !.callState = "idle",
            !.remoteDevice = NoDevice, !.isInitiator = FALSE]

\* peerConnection.close() in endCall
ClosePC(r, id) == IF id = 0 THEN r ELSE [r EXCEPT ![id] = ClosedPC]

Event(p, op, arg, res) == [p |-> p, op |-> op, arg |-> arg, res |-> res]

SessionInit ==
  /\ webrtcService = [p \in Procs |-> InitService]
  /\ rtc = [p \in Procs |-> << >>]
  /\ tasks = [p \in Procs |-> EmptyBag]
  /\ errLog = [p \in Procs |-> << >>]
  /\ thrown = [p \in Procs |-> ""]
  /\ stopCount = [s \in 1..MaxStreams |-> 0]
  /\ nextStream = 0
  /\ sentLog = {}
  /\ appliedLog = {}
  /\ emitted = [p \in Procs |-> [k \in Kinds |-> 0]]
  /\ ops = 0 /\ faults = 0
  /\ last = Event("", "init", "", "")

\* ------------------------------------------------------- frame conditions
Set(p, s, r, tb, el) ==
  /\ webrtcService' = [webrtcService EXCEPT ![p] = s]
  /\ rtc' = [rtc EXCEPT ![p] = r]
  /\ tasks' = [tasks EXCEPT ![p] = tb]
  /\ errLog' = [errLog EXCEPT ![p] = el]

\* a POST /signaling request is issued by p (the fetch of sendSignalingMessage)
LogSend(p, s, kind) ==
  /\ sentLog' = sentLog \cup {[from |-> p, to |-> s.remoteDevice, kind |-> kind,
                               initiator |-> s.isInitiator]}
  /\ emitted' = [emitted EXCEPT ![p][kind] = @ + 1]

NoSend == UNCHANGED <<sentLog, emitted>>

\* the collaborator (or the network) settles a promise: ok, or a failure that
\* uses the fault budget unless the call cannot succeed anyway (mustFail)
Settle(ok, mustFail) ==
  /\ mustFail => ~ok
  /\ (~ok /\ ~mustFail) => faults < MaxFaults
  /\ faults' = IF ~ok /\ ~mustFail THEN faults + 1 ELSE faults

\* sendSignalingMessage (deviceInfo.ts 440-471): the fetch it issues, as the
\* suspended call of operation op
SendTask(s, op, kind) ==
  [NoTask EXCEPT !.op = op, !.at = "send", !.dev = s.remoteDevice,
                 !.kind = kind, !.net = "flight"]

\* ---------------------------------------------------------------- startCall
\* startCall after `await this.getLocalStream()` (deviceInfo.ts 303-310):
\* createPeerConnection, addTrack, connectSignaling issues its GET
StartCallAfterMedia(p, s, r, tb, el, d) ==
  LET r1 == Append(r, NewPC)
      s1 == [s EXCEPT !.peerConnection = Len(r1)]
  IN Set(p, s1, r1, AddTask(tb, [Task("startCall", "probe") EXCEPT !.dev = d]), el)

\* the catch block of startCall (deviceInfo.ts 321-325)
StartCallCatch(p, s, r, tb, el, msg) ==
  Set(p, setCallState(s, "idle"), r, tb, Append(el, msg))

\* (variant: only a live call blocks a new one)
startCallGuard_notConnected(s) == s.callState # "connected"

\* the guard of startCall (deviceInfo.ts 291-293): it throws unless this holds
startCallGuard(s) == s.callState = "idle"

\* startCall (deviceInfo.ts 290-301): guard, role, state, getLocalStream
StartCall(p, d) ==
  /\ ops < MaxOps
  /\ ops' = ops + 1
  /\ LET s == webrtcService[p] IN
     IF ~startCallGuard(s)
     THEN /\ thrown' = [thrown EXCEPT ![p] = CallInProgress]
          /\ last' = Event(p, "startCall", d, "throw")
          /\ UNCHANGED <<webrtcService, rtc, tasks, errLog>>
     ELSE LET s1 == setCallState([s EXCEPT !.remoteDevice = d, !.isInitiator = TRUE],
                                 "calling")
          IN /\ thrown' = [thrown EXCEPT ![p] = ""]
             /\ last' = Event(p, "startCall", d, "")
             /\ IF s1.localStream # 0
                THEN StartCallAfterMedia(p, s1, rtc[p], tasks[p], errLog[p], d)
                ELSE Set(p, s1, rtc[p],
                         AddTask(tasks[p], [Task("startCall", "media") EXCEPT !.dev = d]),
                         errLog[p])
  /\ NoSend
  /\ UNCHANGED <<stopCount, nextStream, appliedLog, faults>>

\* connectSignaling settles (deviceInfo.ts 410-435; failures are swallowed);
\* startCall goes on to createOffer (deviceInfo.ts 313)
ProbeDone(p, t) ==
  /\ t \in TasksOf(p) /\ t.op = "startCall" /\ t.at = "probe"
  /\ \E ok \in BOOLEAN :
       /\ Settle(ok, t.dev \notin Procs)
       /\ last' = Event(p, "probe", t.dev, IF ok THEN "ok" ELSE "fail")
  /\ LET s == webrtcService[p]
         tb == DelTask(tasks[p], t)
     IN IF s.peerConnection = 0
        THEN StartCallCatch(p, s, rtc[p], tb, errLog[p], NullDeref)
        ELSE Set(p, s, rtc[p],
                 AddTask(tb, [t EXCEPT !.at = "createOffer", !.pc = s.peerConnection]),
                 errLog[p])
  /\ NoSend
  /\ UNCHANGED <<thrown, stopCount, nextStream, appliedLog, ops>>

\* ---------------------------------------------------------------- acceptCall
\* the catch block of acceptCall (deviceInfo.ts 358-361)
AcceptCallCatch(p, s, r, tb, el, msg) == Set(p, s, r, tb, Append(el, msg))

\* acceptCall after `await this.getLocalStream()` (deviceInfo.ts 340-348)
AcceptCallAfterMedia(p, s, r, tb, el) ==
  IF s.peerConnection = 0
  THEN AcceptCallCatch(p, s, r, tb, el, NullDeref)
  ELSE Set(p, s, r,
           AddTask(tb, [Task("acceptCall", "createAnswer") EXCEPT !.pc = s.peerConnection]),
           el)

\* (variant: any session in progress can be accepted)
acceptCallGuard_notIdle(s) == s.callState # "idle"

\* the guard of acceptCall (deviceInfo.ts 332-334): it throws unless this holds
acceptCallGuard(s) == s.callState = "ringing"

\* acceptCall (deviceInfo.ts 331-338)
AcceptCall(p) ==
  /\ ops < MaxOps
  /\ ops' = ops + 1
  /\ LET s == webrtcService[p] IN
     IF ~acceptCallGuard(s)
     THEN /\ thrown' = [thrown EXCEPT ![p] = NoIncomingCall]
          /\ last' = Event(p, "acceptCall", "", "throw")
          /\ UNCHANGED <<webrtcService, rtc, tasks, errLog>>
     ELSE /\ thrown' = [thrown EXCEPT ![p] = ""]
          /\ last' = Event(p, "acceptCall", "", "")
          /\ IF s.localStream # 0
             THEN AcceptCallAfterMedia(p, s, rtc[p], tasks[p], errLog[p])
             ELSE Set(p, s, rtc[p], AddTask(tasks[p], Task("acceptCall", "media")),
                      errLog[p])
  /\ NoSend
  /\ UNCHANGED <<stopCount, nextStream, appliedLog, faults>>

\* ------------------------------------------------------ rejectCall / endCall
\* rejectCall (deviceInfo.ts 367-370): sendSignalingMessage, then endCall
RejectCall(p) ==
  /\ ops < MaxOps
  /\ ops' = ops + 1
  /\ thrown' = [thrown EXCEPT ![p] = ""]
  /\ last' = Event(p, "rejectCall", "", "")
  /\ LET s == webrtcService[p] IN
     IF s.remoteDevice = NoDevice
     THEN \* nothing is sent; endCall runs in the same turn
          /\ Set(p, endCall(s), ClosePC(rtc[p], s.peerConnection), tasks[p], errLog[p])
          /\ stopCount' = StopTracks(stopCount, s.localStream)
          /\ NoSend
     ELSE /\ Set(p, s, rtc[p], AddTask(tasks[p], SendTask(s, "rejectCall", "reject")),
                 errLog[p])
          /\ LogSend(p, s, "reject")
          /\ UNCHANGED stopCount
  /\ UNCHANGED <<nextStream, appliedLog, faults>>

\* endCall (deviceInfo.ts 375-394), called by the user interface
EndCall(p) ==
  /\ ops < MaxOps
  /\ ops' = ops + 1
  /\ thrown' = [thrown EXCEPT ![p] = ""]
  /\ last' = Event(p, "endCall", "",
                   IF last.op = "endCall" /\ last.p = p THEN "again" ELSE "")
  /\ LET s == webrtcService[p] IN
       /\ Set(p, endCall(s), ClosePC(rtc[p], s.peerConnection), tasks[p], errLog[p])
       /\ stopCount' = StopTracks(stopCount, s.localStream)
  /\ NoSend
  /\ UNCHANGED <<nextStream, appliedLog, faults>>

\* ------------------------------------------------ the media collaborator
\* getLocalStream (deviceInfo.ts 263-285) when getUserMedia settles, and the
\* continuation of the caller that awaited it: startCall, acceptCall, or the
\* background acquisition of handleIncomingSignalingMessage (497-503), whose
\* failure is only logged
GetUserMediaDone(p, t) ==
  /\ t \in TasksOf(p) /\ t.at = "media"
  /\ LET s  == webrtcService[p]
         tb == DelTask(tasks[p], t)
     IN \E ok \in BOOLEAN :
          /\ Settle(ok, FALSE)
          /\ ok => nextStream < MaxStreams
          /\ last' = Event(p, "getUserMedia", t.op, IF ok THEN "ok" ELSE "fail")
          /\ IF ok
             THEN LET s1 == [s EXCEPT !.localStream = nextStream + 1] IN
                  /\ nextStream' = nextStream + 1
                  /\ CASE t.op = "startCall" ->
                            StartCallAfterMedia(p, s1, rtc[p], tb, errLog[p], t.dev)
                       [] t.op = "acceptCall" ->
                            AcceptCallAfterMedia(p, s1, rtc[p], tb, errLog[p])
                       [] OTHER -> Set(p, s1, rtc[p], tb, errLog[p])
             ELSE /\ UNCHANGED nextStream
                  /\ CASE t.op = "startCall" ->
                            StartCallCatch(p, s, rtc[p], tb, errLog[p], MediaAccess)
                       [] t.op = "acceptCall" ->
                            AcceptCallCatch(p, s, rtc[p], tb, errLog[p], MediaAccess)
                       [] OTHER -> Set(p, s, rtc[p], tb, errLog[p])
  /\ NoSend
  /\ UNCHANGED <<thrown, stopCount, appliedLog, ops>>

\* the catch block of the operation a task belongs to
Catch(p, op, s, r, tb, el, msg) ==
  IF op = "startCall" THEN StartCallCatch(p, s, r, tb, el, msg)
                      ELSE AcceptCallCatch(p, s, r, tb, el, msg)

\* createOffer / createAnswer settles (deviceInfo.ts 313, 348); the caller goes
\* on to this.peerConnection.setLocalDescription (314, 349).  createAnswer
\* needs a remote offer on the connection it was called on.
CreateDone(p, t) ==
  /\ t \in TasksOf(p) /\ t.at \in {"createOffer", "createAnswer"}
  /\ LET s  == webrtcService[p]
         tb == DelTask(tasks[p], t)
         mustFail == \/ ~PCOpen(p, t.pc)
                     \/ /\ t.at = "createAnswer"
                        /\ ~(rtc[p][t.pc].rem = "offer" /\ rtc[p][t.pc].loc = "none")
     IN \E ok \in BOOLEAN :
          /\ Settle(ok, mustFail)
          /\ last' = Event(p, t.at, t.op, IF ok THEN "ok" ELSE "fail")
          /\ IF ~ok THEN Catch(p, t.op, s, rtc[p], tb, errLog[p], CollabError)
             ELSE IF s.peerConnection = 0
                  THEN Catch(p, t.op, s, rtc[p], tb, errLog[p], NullDeref)
             ELSE Set(p, s, rtc[p],
                      AddTask(tb, [t EXCEPT !.at = "setLocal", !.pc = s.peerConnection,
                                            !.kind = IF t.at = "createOffer"
                                                     THEN "offer" ELSE "answer"]),
                      errLog[p])
  /\ NoSend
  /\ UNCHANGED <<thrown, stopCount, nextStream, appliedLog, ops>>

\* (variant: the collaborator takes a local description in any signaling state)
SetLocalDone_lenient(p, t) ==
  /\ t \in TasksOf(p) /\ t.at = "setLocal"
  /\ LET s  == webrtcService[p]
         tb == DelTask(tasks[p], t)
         mustFail == ~PCOpen(p, t.pc)
     IN \E ok \in BOOLEAN :
          /\ Settle(ok, mustFail)
          /\ last' = Event(p, "setLocal", t.kind, IF ok THEN "ok" ELSE "fail")
          /\ IF ~ok
             THEN Catch(p, t.op, s, rtc[p], tb, errLog[p], CollabError) /\ NoSend
             ELSE LET r1 == [rtc[p] EXCEPT ![t.pc].loc = t.kind,
                                           ![t.pc].rem = IF t.kind = "offer"
                                                         THEN "none" ELSE @] IN
                  IF s.remoteDevice = NoDevice
                  THEN /\ Set(p, IF t.op = "acceptCall" THEN setCallState(s, "connected")
                                                        ELSE s,
                              r1, tb, errLog[p])
                       /\ NoSend
                  ELSE /\ Set(p, s, r1, AddTask(tb, SendTask(s, t.op, t.kind)), errLog[p])
                       /\ LogSend(p, s, t.kind)
  /\ UNCHANGED <<thrown, stopCount, nextStream, appliedLog, ops>>

\* setLocalDescription settles (deviceInfo.ts 314, 349); the caller goes on to
\* sendSignalingMessage (317-320, 352-355), which returns at once when there
\* is no remote device (441-444); acceptCall then sets 'connected' (357)
SetLocalDone(p, t) ==
  /\ t \in TasksOf(p) /\ t.at = "setLocal"
  /\ LET s  == webrtcService[p]
         tb == DelTask(tasks[p], t)
         mustFail == \/ ~PCOpen(p, t.pc)
                     \/ /\ t.kind = "offer"
                        /\ rtc[p][t.pc].rem = "offer" /\ rtc[p][t.pc].loc = "none"
                     \/ /\ t.kind = "answer"
                        /\ ~(rtc[p][t.pc].rem = "offer" /\ rtc[p][t.pc].loc = "none")
     IN \E ok \in BOOLEAN :
          /\ Settle(ok, mustFail)
          /\ last' = Event(p, "setLocal", t.kind, IF ok THEN "ok" ELSE "fail")
          /\ IF ~ok
             THEN Catch(p, t.op, s, rtc[p], tb, errLog[p], CollabError) /\ NoSend
             ELSE LET r1 == [rtc[p] EXCEPT ![t.pc].loc = t.kind,
                                           ![t.pc].rem = IF t.kind = "offer"
                                                         THEN "none" ELSE @] IN
                  IF s.remoteDevice = NoDevice
                  THEN /\ Set(p, IF t.op = "acceptCall" THEN setCallState(s, "connected")
                                                        ELSE s,
                              r1, tb, errLog[p])
                       /\ NoSend
                  ELSE /\ Set(p, s, r1, AddTask(tb, SendTask(s, t.op, t.kind)), errLog[p])
                       /\ LogSend(p, s, t.kind)
  /\ UNCHANGED <<thrown, stopCount, nextStream, appliedLog, ops>>

\* the 'icecandidate' listener of createPeerConnection (deviceInfo.ts 229-236)
IceCandidate(p) ==
  /\ ops < MaxOps
  /\ ops' = ops + 1
  /\ LET s == webrtcService[p] IN
       /\ PCOpen(p, s.peerConnection)
       /\ rtc[p][s.peerConnection].loc # "none"
       /\ last' = Event(p, "icecandidate", s.remoteDevice, "")
       /\ IF s.remoteDevice = NoDevice
          THEN UNCHANGED <<webrtcService, rtc, tasks, errLog>> /\ NoSend
          ELSE /\ Set(p, s, rtc[p], AddTask(tasks[p], SendTask(s, "ice", "ice-candidate")),
                      errLog[p])
               /\ LogSend(p, s, "ice-candidate")
  /\ UNCHANGED <<thrown, stopCount, nextStream, appliedLog, faults>>

\* the 'connectionstatechange' listener (deviceInfo.ts 248-255), state 'connected'
MediaConnected(p) ==
  /\ ops < MaxOps
  /\ ops' = ops + 1
  /\ LET s == webrtcService[p] IN
       /\ PCOpen(p, s.peerConnection)
       /\ rtc[p][s.peerConnection].loc # "none"
       /\ rtc[p][s.peerConnection].rem # "none"
       /\ Set(p, setCallState(s, "connected"), rtc[p], tasks[p], errLog[p])
  /\ last' = Event(p, "connectionstatechange", "connected", "")
  /\ NoSend
  /\ UNCHANGED <<thrown, stopCount, nextStream, appliedLog, faults>>

\* the 'connectionstatechange' listener, state 'disconnected' or 'failed':
\* endCall (deviceInfo.ts 252-254)
MediaFailed(p) ==
  /\ ops < MaxOps
  /\ ops' = ops + 1
  /\ LET s == webrtcService[p] IN
       /\ PCOpen(p, s.peerConnection)
       /\ rtc[p][s.peerConnection].loc # "none" \/ rtc[p][s.peerConnection].rem # "none"
       /\ Set(p, endCall(s), ClosePC(rtc[p], s.peerConnection), tasks[p], errLog[p])
       /\ stopCount' = StopTracks(stopCount, s.localStream)
  /\ last' = Event(p, "connectionstatechange", "failed", "")
  /\ NoSend
  /\ UNCHANGED <<thrown, nextStream, appliedLog, faults>>

\* ------------------------------------------------------ inbound messages
Result(s, r, tb, el, stopped) ==
  [s |-> s, r |-> r, tb |-> tb, el |-> el, stopped |-> stopped]

\* (variant: the receipt of an answer sets 'connected')
processSignalingMessage_answerConnects(s, r, tb, el, kind) ==
  IF s.peerConnection = 0 THEN Result(s, r, tb, el, 0)
  ELSE CASE kind = "offer" /\ ~s.isInitiator ->
              Result(s, r,
                     AddTask(tb, [Task("process", "setRemote") EXCEPT
                                    !.kind = "offer", !.pc = s.peerConnection]),
                     el, 0)
         [] kind = "answer" /\ s.isInitiator ->
              Result(setCallState(s, "connected"), r,
                     AddTask(tb, [Task("process", "setRemote") EXCEPT
                                    !.kind = "answer", !.pc = s.peerConnection]),
                     el, 0)
         [] kind = "ice-candidate" ->
              Result(s, r,
                     AddTask(tb, [Task("process", "addIce") EXCEPT
                                    !.kind = kind, !.pc = s.peerConnection]),
                     el, 0)
         [] kind = "reject" ->
              Result(endCall(s), ClosePC(r, s.peerConnection), tb,
                     Append(el, CallRejected), s.localStream)
         [] OTHER -> Result(s, r, tb, el, 0)

\* processSignalingMessage (deviceInfo.ts 518-574) up to its first await
processSignalingMessage(s, r, tb, el, kind) ==
  IF s.peerConnection = 0 THEN Result(s, r, tb, el, 0)
  ELSE CASE kind = "offer" ->
              IF ~s.isInitiator
              THEN Result(s, r,
                          AddTask(tb, [Task("process", "setRemote") EXCEPT
                                         !.kind = "offer", !.pc = s.peerConnection]),
                          el, 0)
              ELSE Result(s, r, tb, el, 0)
         [] kind = "answer" ->
              IF s.isInitiator
              THEN Result(s, r,
                          AddTask(tb, [Task("process", "setRemote") EXCEPT
                                         !.kind = "answer", !.pc = s.peerConnection]),
                          el, 0)
              ELSE Result(s, r, tb, el, 0)
         [] kind = "ice-candidate" ->
              Result(s, r,
                     AddTask(tb, [Task("process", "addIce") EXCEPT
                                    !.kind = kind, !.pc = s.peerConnection]),
                     el, 0)
         [] kind = "reject" ->
              Result(endCall(s), ClosePC(r, s.peerConnection), tb,
                     Append(el, CallRejected), s.localStream)
         [] OTHER -> Result(s, r, tb, el, 0)

\* (variant: a reject ends the call even when there is no peer connection)
handleIncomingSignalingMessage_rejectEnds(s, r, tb, el, kind, address) ==
  IF s.peerConnection = 0
  THEN IF kind = "offer"
       THEN LET s1 == IF s.remoteDevice = NoDevice
                      THEN [s EXCEPT !.remoteDevice = address] ELSE s
                r1 == Append(r, NewPC)
                s2 == [s1 EXCEPT !.peerConnection = Len(r1)]
                tb1 == IF s2.localStream = 0
                       THEN AddTask(tb, Task("incoming", "media")) ELSE tb
            IN processSignalingMessage(setCallState(s2, "ringing"), r1, tb1, el, kind)
       ELSE IF kind = "reject"
            THEN Result(endCall(s), r, tb, Append(el, CallRejected), s.localStream)
            ELSE Result(s, r, tb, el, 0)
  ELSE processSignalingMessage(s, r, tb, el, kind)

\* (variant: any message without a peer connection opens an incoming call)
handleIncomingSignalingMessage_anyKind(s, r, tb, el, kind, address) ==
  IF s.peerConnection = 0
  THEN LET s1 == IF s.remoteDevice = NoDevice
                 THEN [s EXCEPT !.remoteDevice = address] ELSE s
           r1 == Append(r, NewPC)
           s2 == [s1 EXCEPT !.peerConnection = Len(r1)]
           tb1 == IF s2.localStream = 0
                  THEN AddTask(tb, Task("incoming", "media")) ELSE tb
       IN processSignalingMessage(setCallState(s2, "ringing"), r1, tb1, el, kind)
  ELSE processSignalingMessage(s, r, tb, el, kind)

\* handleIncomingSignalingMessage (deviceInfo.ts 476-513) up to its first
\* await; clientInfo.address is the address the transport observed
handleIncomingSignalingMessage(s, r, tb, el, kind, address) ==
  IF s.peerConnection = 0
  THEN IF kind = "offer"
       THEN LET s1 == IF s.remoteDevice = NoDevice
                      THEN [s EXCEPT !.remoteDevice = address] ELSE s
                r1 == Append(r, NewPC)
                s2 == [s1 EXCEPT !.peerConnection = Len(r1)]
                tb1 == IF s2.localStream = 0
                       THEN AddTask(tb, Task("incoming", "media")) ELSE tb
            IN processSignalingMessage(setCallState(s2, "ringing"), r1, tb1, el, kind)
       ELSE Result(s, r, tb, el, 0)
  ELSE processSignalingMessage(s, r, tb, el, kind)

\* (variant: the response waits for the work the message started, and the
\* fetch of the sender gives up when there is such work)
Deliver_awaitsHandler(p, t) ==
  /\ t \in TasksOf(p) /\ t.at = "send" /\ t.net = "flight"
  /\ t.dev \in Procs
  /\ LET q  == t.dev
         tq == IF q = p THEN DelTask(tasks[p], t) ELSE tasks[q]
         res == handleIncomingSignalingMessage(webrtcService[q], rtc[q], tq,
                                               errLog[q], t.kind, p)
         t1 == [t EXCEPT !.net = IF res.tb = tq THEN "ok" ELSE "fail"]
     IN /\ webrtcService' = [webrtcService EXCEPT ![q] = res.s]
        /\ rtc' = [rtc EXCEPT ![q] = res.r]
        /\ errLog' = [errLog EXCEPT ![q] = res.el]
        /\ tasks' = IF q = p
                    THEN [tasks EXCEPT ![p] = AddTask(res.tb, t1)]
                    ELSE [tasks EXCEPT ![q] = res.tb,
                                       ![p] = AddTask(DelTask(tasks[p], t), t1)]
        /\ stopCount' = StopTracks(stopCount, res.stopped)
        /\ last' = Event(q, "message", t.kind, p)
  /\ NoSend
  /\ UNCHANGED <<thrown, nextStream, appliedLog, ops, faults>>

\* A POST /signaling of p reaches the server of t.dev: onMessage runs there
\* (part_002 172-184, deviceInfo.ts 185-187) and the 200 response is written
Deliver(p, t) ==
  /\ t \in TasksOf(p) /\ t.at = "send" /\ t.net = "flight"
  /\ t.dev \in Procs
  /\ LET q  == t.dev
         tq == IF q = p THEN DelTask(tasks[p], t) ELSE tasks[q]
         res == handleIncomingSignalingMessage(webrtcService[q], rtc[q], tq,
                                               errLog[q], t.kind, p)
         t1 == [t EXCEPT !.net = "ok"]
     IN /\ webrtcService' = [webrtcService EXCEPT ![q] = res.s]
        /\ rtc' = [rtc EXCEPT ![q] = res.r]
        /\ errLog' = [errLog EXCEPT ![q] = res.el]
        /\ tasks' = IF q = p
                    THEN [tasks EXCEPT ![p] = AddTask(res.tb, t1)]
                    ELSE [tasks EXCEPT ![q] = res.tb,
                                       ![p] = AddTask(DelTask(tasks[p], t), t1)]
        /\ stopCount' = StopTracks(stopCount, res.stopped)
        /\ last' = Event(q, "message", t.kind, p)
  /\ NoSend
  /\ UNCHANGED <<thrown, nextStream, appliedLog, ops, faults>>

\* (variant: the failure of the fetch is rethrown into startCall's catch block)
AfterSend_rethrow(op, s, ok) ==
  CASE op = "rejectCall" -> endCall(s)
    [] op = "acceptCall" -> setCallState(s, "connected")
    [] op = "startCall" /\ ~ok -> setCallState(s, "idle")
    [] OTHER -> s

\* what the caller of sendSignalingMessage does once it returns: the failure
\* of the fetch is swallowed (deviceInfo.ts 467-470), rejectCall goes on with
\* endCall (369), acceptCall with setCallState('connected') (357)
AfterSend(op, s, ok) ==
  CASE op = "rejectCall" -> endCall(s)
    [] op = "acceptCall" -> setCallState(s, "connected")
    [] OTHER -> s

\* the fetch of sendSignalingMessage settles (deviceInfo.ts 449-470)
SendDone(p, t) ==
  /\ t \in TasksOf(p) /\ t.at = "send"
  /\ LET s  == webrtcService[p]
         tb == DelTask(tasks[p], t)
     IN \E ok \in BOOLEAN :
          /\ ok => t.net = "ok"
          /\ ~ok => t.net = "flight"
          /\ Settle(ok, t.net = "flight" /\ t.dev \notin Procs)
          /\ last' = Event(p, "sent", t.kind, IF ok THEN "ok" ELSE "fail")
          /\ LET s1 == AfterSend(t.op, s, ok) IN
               /\ Set(p, s1,
                      IF t.op = "rejectCall" THEN ClosePC(rtc[p], s.peerConnection)
                                             ELSE rtc[p],
                      tb, errLog[p])
               /\ stopCount' = IF t.op = "rejectCall"
                               THEN StopTracks(stopCount, s.localStream) ELSE stopCount
  /\ NoSend
  /\ UNCHANGED <<thrown, nextStream, appliedLog, ops>>

\* setRemoteDescription settles in processSignalingMessage (deviceInfo.ts
\* 527-536, 543-551).  An offer opens a negotiation on a connection that is
\* stable or already holds a remote offer; an answer closes the negotiation
\* the local offer opened.
SetRemoteDone(p, t) ==
  /\ t \in TasksOf(p) /\ t.at = "setRemote"
  /\ LET s  == webrtcService[p]
         tb == DelTask(tasks[p], t)
         mustFail == \/ ~PCOpen(p, t.pc)
                     \/ /\ t.kind = "offer"
                        /\ rtc[p][t.pc].loc = "offer" /\ rtc[p][t.pc].rem = "none"
                     \/ /\ t.kind = "answer"
                        /\ ~(rtc[p][t.pc].loc = "offer" /\ rtc[p][t.pc].rem = "none")
     IN \E ok \in BOOLEAN :
          /\ Settle(ok, mustFail)
          /\ last' = Event(p, "setRemote", t.kind, IF ok THEN "ok" ELSE "fail")
          /\ IF ok
             THEN /\ Set(p, IF t.kind = "offer" THEN setCallState(s, "ringing") ELSE s,
                         [rtc[p] EXCEPT ![t.pc].rem = t.kind,
                                        ![t.pc].loc = IF t.kind = "offer"
                                                      THEN "none" ELSE @],
                         tb, errLog[p])
                  /\ appliedLog' = appliedLog \cup
                       {[at |-> p, kind |-> t.kind, initiator |-> s.isInitiator]}
             ELSE /\ Set(p, s, rtc[p], tb, Append(errLog[p], CollabError))
                  /\ UNCHANGED appliedLog
  /\ NoSend
  /\ UNCHANGED <<thrown, stopCount, nextStream, ops>>

\* (variant: a candidate the collaborator refuses is reported as an error)
AddIceDone_reports(p, t) ==
  /\ t \in TasksOf(p) /\ t.at = "addIce"
  /\ \E ok \in BOOLEAN :
       /\ Settle(ok, ~PCOpen(p, t.pc) \/ rtc[p][t.pc].rem = "none")
       /\ last' = Event(p, "addIce", "", IF ok THEN "ok" ELSE "fail")
       /\ Set(p, webrtcService[p], rtc[p], DelTask(tasks[p], t),
              IF ok THEN errLog[p] ELSE Append(errLog[p], CollabError))
  /\ NoSend
  /\ UNCHANGED <<thrown, stopCount, nextStream, appliedLog, ops>>

\* addIceCandidate settles (deviceInfo.ts 556-566): a failure is only logged
AddIceDone(p, t) ==
  /\ t \in TasksOf(p) /\ t.at = "addIce"
  /\ \E ok \in BOOLEAN :
       /\ Settle(ok, ~PCOpen(p, t.pc) \/ rtc[p][t.pc].rem = "none")
       /\ last' = Event(p, "addIce", "", IF ok THEN "ok" ELSE "fail")
  /\ Set(p, webrtcService[p], rtc[p], DelTask(tasks[p], t), errLog[p])
  /\ NoSend
  /\ UNCHANGED <<thrown, stopCount, nextStream, appliedLog, ops>>

\* ------------------------------------------------------- the specification
AllTasks == UNION {TasksOf(p) : p \in Procs}

Next ==
  \/ \E p \in Procs, d \in Devices : StartCall(p, d) /\ UNCHANGED notSession
  \/ \E p \in Procs : AcceptCall(p) /\ UNCHANGED notSession
  \/ \E p \in Procs : RejectCall(p) /\ UNCHANGED notSession
  \/ \E p \in Procs : EndCall(p) /\ UNCHANGED notSession
  \/ \E p \in Procs, t \in AllTasks : GetUserMediaDone(p, t) /\ UNCHANGED notSession
  \/ \E p \in Procs, t \in AllTasks : ProbeDone(p, t) /\ UNCHANGED notSession
  \/ \E p \in Procs, t \in AllTasks : CreateDone(p, t) /\ UNCHANGED notSession
  \/ \E p \in Procs, t \in AllTasks : SetLocalDone(p, t) /\ UNCHANGED notSession
  \/ \E p \in Procs, t \in AllTasks : Deliver(p, t) /\ UNCHANGED notSession
  \/ \E p \in Procs, t \in AllTasks : SendDone(p, t) /\ UNCHANGED notSession
  \/ \E p \in Procs, t \in AllTasks : SetRemoteDone(p, t) /\ UNCHANGED notSession
  \/ \E p \in Procs, t \in AllTasks : AddIceDone(p, t) /\ UNCHANGED notSession
  \/ \E p \in Procs : IceCandidate(p) /\ UNCHANGED notSession
  \/ \E p \in Procs : MediaConnected(p) /\ UNCHANGED notSession
  \/ \E p \in Procs : MediaFailed(p) /\ UNCHANGED notSession

\* ======================================================================
\* HTTPSignalingServer (src/unnamed/part_002): one accepted connection
\* ======================================================================
\* The text of a request is a sequence of tokens: words, the separators SP
\* and CRLF, and the punctuation of JSON.
SP   == " "
CRLF == "\r\n"
Punct == {"{", "}", ":", ","}
White == {SP, CRLF}

Methods == {"GET", "POST", "PUT"}
Paths   == {"/signaling", "/call-request", "/other"}

\* JavaScript objects are sequences of <<key, value>> pairs (insertion order)
Obj1(k1, v1) == << <<k1, v1>> >>
Obj2(k1, v1, k2, v2) == << <<k1, v1>>, <<k2, v2>> >>
Obj3(k1, v1, k2, v2, k3, v3) == << <<k1, v1>>, <<k2, v2>>, <<k3, v3>> >>

\* obj[key], "undefined" when the key is absent
Get(obj, key) ==
  IF \E i \in 1..Len(obj) : obj[i][1] = key
  THEN obj[CHOOSE i \in 1..Len(obj) : obj[i][1] = key][2]
  ELSE "undefined"

\* JSON.stringify of an object of strings; undefined members are left out
RECURSIVE StringifyMembers(_)
StringifyMembers(obj) ==
  IF obj = << >> THEN << >>
  ELSE LET rest == StringifyMembers(Tail(obj))
           head == IF Head(obj)[2] = "undefined" THEN << >>
                   ELSE <<Head(obj)[1], ":", Head(obj)[2]>>
       IN IF head = << >> THEN rest
          ELSE IF rest = << >> THEN head
          ELSE head \o <<",">> \o rest

Stringify(obj) == <<"{">> \o StringifyMembers(obj) \o <<"}">>

\* a JavaScript value: an object, null or a number
JsObject(obj) == [ok |-> TRUE, kind |-> "object", obj |-> obj]
JsNull        == [ok |-> TRUE, kind |-> "null", obj |-> << >>]
JsNumber      == [ok |-> TRUE, kind |-> "number", obj |-> << >>]
SyntaxError   == [ok |-> FALSE, kind |-> "", obj |-> << >>]

IsWord(tok) == tok \notin Punct \cup White

\* the members of a JSON object: key : value { , key : value }
RECURSIVE ParseMembers(_)
ParseMembers(toks) ==
  IF Len(toks) < 3 \/ ~IsWord(toks[1]) \/ toks[2] # ":" \/ ~IsWord(toks[3])
  THEN SyntaxError
  ELSE IF Len(toks) = 3 THEN JsObject(Obj1(toks[1], toks[3]))
  ELSE IF toks[4] # "," THEN SyntaxError
  ELSE LET rest == ParseMembers(SubSeq(toks, 5, Len(toks)))
       IN IF rest.ok THEN JsObject(Obj1(toks[1], toks[3]) \o rest.obj)
          ELSE SyntaxError

\* String.prototype.trim
RECURSIVE TrimLeft(_)
TrimLeft(toks) ==
  IF toks # << >> /\ Head(toks) \in White THEN TrimLeft(Tail(toks)) ELSE toks

RECURSIVE TrimRight(_)
TrimRight(toks) ==
  IF toks # << >> /\ toks[Len(toks)] \in White
  THEN TrimRight(SubSeq(toks, 1, Len(toks) - 1)) ELSE toks

Trim(toks) == TrimRight(TrimLeft(toks))

\* JSON.parse (it skips the white space around the value)
JSONparse(text) ==
  LET toks == Trim(text) IN
  IF toks = <<"null">> THEN JsNull
  ELSE IF toks = <<"1">> THEN JsNumber
  ELSE IF Len(toks) >= 2 /\ toks[1] = "{" /\ toks[Len(toks)] = "}"
       THEN IF Len(toks) = 2 THEN JsObject(<< >>)
            ELSE ParseMembers(SubSeq(toks, 2, Len(toks) - 1))
  ELSE SyntaxError

\* String.prototype.indexOf of a two-token pattern (0 when absent; positions
\* count from 1)
IndexOf2(toks, a, b) ==
  IF \E i \in 1..(Len(toks) - 1) : toks[i] = a /\ toks[i + 1] = b
  THEN CHOOSE i \in 1..(Len(toks) - 1) :
         /\ toks[i] = a /\ toks[i + 1] = b
         /\ \A j \in 1..(i - 1) : ~(toks[j] = a /\ toks[j + 1] = b)
  ELSE 0

\* requestData.includes('\r\n\r\n') (part_002 107)
HasDelimiter(toks) == IndexOf2(toks, CRLF, CRLF) # 0

\* String.prototype.split(sep)[n], the pieces counted from 0; "undefined" is
\* << "undefined" >> here
RECURSIVE Piece(_, _, _)
Piece(toks, sep, n) ==
  LET cut == IF \E i \in 1..Len(toks) : toks[i] = sep
             THEN CHOOSE i \in 1..Len(toks) :
                    toks[i] = sep /\ \A j \in 1..(i - 1) : toks[j] # sep
             ELSE 0
  IN IF n = 0 THEN (IF cut = 0 THEN toks ELSE SubSeq(toks, 1, cut - 1))
     ELSE IF cut = 0 THEN <<"undefined">>
     ELSE Piece(SubSeq(toks, cut + 1, Len(toks)), sep, n - 1)

\* the request line and its parts (part_002 130-134)
RequestLine(data) == Piece(data, CRLF, 0)
Method(data)      == Piece(RequestLine(data), SP, 0)
Path(data)        == Piece(RequestLine(data), SP, 1)

\* (variant: the body is taken from one position too far)
Body_offByOne(data) ==
  Trim(SubSeq(data, IndexOf2(data, CRLF, CRLF) + 3, Len(data)))

\* the body: requestData.substring(indexOf('\r\n\r\n') + 4).trim() (140-141)
Body(data) == Trim(SubSeq(data, IndexOf2(data, CRLF, CRLF) + 2, Len(data)))

\* sendHTTPResponse (part_002 189-211): status line and body
Response(code, text, obj) == [code |-> code, text |-> text, body |-> Stringify(obj)]

\* what one dispatch did: the response written, the callback invoked (if any)
\* and its first argument
Outcome(resp, cb, arg) == [resp |-> resp, cb |-> cb, arg |-> arg]
NoArg == [ok |-> FALSE, kind |-> "", obj |-> << >>]

InvalidJSON == Response(400, "Bad Request", Obj1("error", "Invalid JSON"))
NotFound    == Response(404, "Not Found", Obj1("error", "Endpoint not found"))

\* handleSignalingMessage (part_002 172-184), inside the try of its caller:
\* message.type of null throws before onMessage is reached
handleSignalingMessage(message) ==
  IF message.kind = "null" THEN Outcome(InvalidJSON, "none", NoArg)
  ELSE Outcome(Response(200, "OK",
                        Obj2("status", "received", "type", Get(message.obj, "type"))),
               "onMessage", message)

\* (variant: only GET is told apart from the other methods)
Route_anyMethod(method, path) ==
  CASE method = <<"GET">> /\ path = <<"/signaling">> -> "health"
    [] method # <<"GET">> /\ path = <<"/signaling">> -> "signaling"
    [] method # <<"GET">> /\ path = <<"/call-request">> -> "call-request"
    [] OTHER -> "none"

\* the route of a request (part_002 138, 150, 153, 164)
Route(method, path) ==
  CASE method = <<"POST">> /\ path = <<"/signaling">> -> "signaling"
    [] method = <<"GET">> /\ path = <<"/signaling">> -> "health"
    [] method = <<"POST">> /\ path = <<"/call-request">> -> "call-request"
    [] OTHER -> "none"

\* (variant: a body that does not parse is dispatched as an empty message)
handleHTTPRequest_lenient(data) ==
  LET route == Route(Method(data), Path(data))
      value == JSONparse(Body(data))
  IN CASE route = "signaling" ->
            IF value.ok THEN handleSignalingMessage(value)
            ELSE handleSignalingMessage(JsObject(<< >>))
       [] route = "health" ->
            Outcome(Response(200, "OK", Obj2("status", "ok", "port", "8888")),
                    "none", NoArg)
       [] route = "call-request" ->
            IF value.ok /\ value.kind # "null"
            THEN Outcome(Response(200, "OK", Obj1("status", "received")),
                         "onConnectionRequest",
                         JsObject(Obj1("fromDevice",
                                       IF Get(value.obj, "fromDevice") = "undefined"
                                       THEN "Unknown"
                                       ELSE Get(value.obj, "fromDevice"))))
            ELSE Outcome(InvalidJSON, "none", NoArg)
       [] OTHER -> Outcome(NotFound, "none", NoArg)

\* handleHTTPRequest (part_002 125-167)
handleHTTPRequest(data) ==
  LET route == Route(Method(data), Path(data))
      value == JSONparse(Body(data))
  IN CASE route = "signaling" ->
            IF value.ok THEN handleSignalingMessage(value)
            ELSE Outcome(InvalidJSON, "none", NoArg)
       [] route = "health" ->
            Outcome(Response(200, "OK", Obj2("status", "ok", "port", "8888")),
                    "none", NoArg)
       [] route = "call-request" ->
            IF value.ok /\ value.kind # "null"
            THEN Outcome(Response(200, "OK", Obj1("status", "received")),
                         "onConnectionRequest",
                         JsObject(Obj1("fromDevice",
                                       IF Get(value.obj, "fromDevice") = "undefined"
                                       THEN "Unknown"
                                       ELSE Get(value.obj, "fromDevice"))))
            ELSE Outcome(InvalidJSON, "none", NoArg)
       [] OTHER -> Outcome(NotFound, "none", NoArg)

\* ---- the client side: the text of a request
OfferMessage  == Obj3("type", "offer", "sdp", "v=0", "timestamp", "1")
AnswerMessage == Obj3("type", "answer", "sdp", "v=1", "timestamp", "1")
CandidateMessage == Obj3("type", "ice-candidate", "candidate", "c1", "timestamp", "1")
RejectMessage == Obj2("type", "reject", "timestamp", "1")
CallRequestMessage == Obj3("type", "call-request", "fromDevice", "B", "timestamp", "1")
CallRequest   == Obj1("fromDevice", "B")

\* the messages of each kind, as sendSignalingMessage serializes them
SignalingMessages ==
  {OfferMessage, AnswerMessage, CandidateMessage, RejectMessage, CallRequestMessage}

WellFormedBodies ==
  {Stringify(m) : m \in SignalingMessages} \cup
  {Stringify(CallRequest), Stringify(OfferMessage) \o <<CRLF>>, <<"1">>}

\* texts JSON.parse rejects: nothing, a truncated object, a word, an object
\* followed by a word, an object without its colon
MalformedBodies ==
  {<< >>, SubSeq(Stringify(OfferMessage), 1, 4), <<"hello">>,
   Stringify(RejectMessage) \o <<"x">>, <<"{", "type", "offer", "}">>}

Bodies == WellFormedBodies \cup MalformedBodies \cup {<<"null">>}

Head1(method, path) ==
  <<method, SP, path, SP, "HTTP/1.1", CRLF, "Content-Type: application/json",
    CRLF, CRLF>>

RequestText(r) == Head1(r.method, r.path) \o r.body

NoRequest == [method |-> "", path |-> "", body |-> << >>]

HttpInit ==
  /\ req = NoRequest
  /\ wire = << >>
  /\ requestData = << >>
  /\ served = << >>
  /\ conns = 0

\* TcpSocket.createServer's connection listener: handleConnection (92-100);
\* the client starts to write a request
Connect(method, path, body) ==
  /\ conns < MaxConns
  /\ wire = << >>
  /\ conns' = conns + 1
  /\ req' = [method |-> method, path |-> path, body |-> body]
  /\ wire' = RequestText(req')
  /\ requestData' = << >>
  /\ served' = << >>
  /\ UNCHANGED notHttp

\* the 'data' listener (part_002 102-111) on a chunk of n tokens
Data(n) ==
  /\ n \in 1..Len(wire)
  /\ wire' = SubSeq(wire, n + 1, Len(wire))
  /\ LET data == requestData \o SubSeq(wire, 1, n) IN
     IF HasDelimiter(data)
     THEN /\ served' = Append(served, [out |-> handleHTTPRequest(data),
                                       len |-> Len(data)])
          /\ requestData' = << >>
     ELSE /\ requestData' = data
          /\ UNCHANGED served
  /\ UNCHANGED <<req, conns>>
  /\ UNCHANGED notHttp

HttpNext ==
  \/ \E method \in Methods, path \in Paths, body \in Bodies : Connect(method, path, body)
  \/ \E n \in 1..Len(wire) : Data(n)

\* ======================================================================
\* ZeroconfService (src/unnamed/part_004 532-886) and the device store
\* (src/src/utils/deviceInfo.ts 90-134)
\* ======================================================================
\* A name is a sequence of tokens: labels, "." and a leading "_".
Dot   == "."
Under == "_"

ServiceNames == {<<"a">>, <<"b">>}
Types        == {<<"http">>, <<Under, "http">>, <<"ws">>}
Protocols    == {<<"tcp">>}
Domains      == {<<"local">>, <<"local", Dot>>}

startsWith(str, c) == str # << >> /\ Head(str) = c
endsWith(str, c)   == str # << >> /\ str[Len(str)] = c

\* the fullName registerSelfService builds (part_004 841-844)
FullName(name, type, protocol, domain) ==
  LET normalizedType     == IF startsWith(type, Under) THEN type ELSE <<Under>> \o type
      normalizedProtocol == IF startsWith(protocol, Under) THEN protocol
                            ELSE <<Under>> \o protocol
      normalizedDomain   == IF endsWith(domain, Dot) THEN domain ELSE domain \o <<Dot>>
  IN name \o <<Dot>> \o normalizedType \o <<Dot>> \o normalizedProtocol
          \o <<Dot>> \o normalizedDomain

\* the identifiers registerSelfService collects (part_004 838-849)
Identifiers(name, type, protocol, domain) ==
  LET fullName == FullName(name, type, protocol, domain)
  IN {name, fullName} \cup
     (IF endsWith(fullName, Dot) THEN {SubSeq(fullName, 1, Len(fullName) - 1)} ELSE {})

\* registerSelfService (part_004 837-853): the set and the map afterwards
registerSelfService(ids, map, name, type, protocol, domain) ==
  LET identifiers == Identifiers(name, type, protocol, domain)
  IN [ids |-> ids \cup identifiers, map |-> [map EXCEPT ![name] = identifiers]]

\* unregisterSelfService (part_004 858-865)
unregisterSelfService(ids, map, name) ==
  IF map[name] = {} THEN [ids |-> ids, map |-> map]
  ELSE [ids |-> ids \ map[name], map |-> [map EXCEPT ![name] = {}]]

\* (variant: only the TXT record decides)
annotateSelfDevice_txtOnly(service, ids) ==
  IF ~(service.txtSelf \/ service.isSelf) THEN service
  ELSE [service EXCEPT !.isSelf = TRUE, !.txtSelf = TRUE]

\* annotateSelfDevice (part_004 870-885)
annotateSelfDevice(service, ids) ==
  LET alreadySelf       == service.txtSelf \/ service.isSelf
      matchesIdentifier == service.name \in ids \/ service.fullName \in ids
  IN IF ~alreadySelf /\ ~matchesIdentifier THEN service
     ELSE [service EXCEPT !.isSelf = TRUE, !.txtSelf = TRUE]

\* (variant: a device that is already in the store is kept as it is)
addDevice_keepFirst(devs, device) ==
  IF \E i \in DOMAIN devs : devs[i].fullName = device.fullName
  THEN devs
  ELSE Append(devs, device)

\* (variant: every record is appended, also under a key that is present)
addDevice_append(devs, device) == Append(devs, device)

\* DeviceStore.addDevice (deviceInfo.ts 96-98): Map.set keeps the position of
\* a key that is already present
addDevice(devs, device) ==
  IF \E i \in DOMAIN devs : devs[i].fullName = device.fullName
  THEN [i \in DOMAIN devs |->
          IF devs[i].fullName = device.fullName THEN device ELSE devs[i]]
  ELSE Append(devs, device)

\* DeviceStore.removeDevice (deviceInfo.ts 103-105)
removeDevice(devs, fullName) ==
  SelectSeq(devs, LAMBDA d : d.fullName # fullName)

\* the records discovery can resolve
FullNames ==
  {FullName(n, <<"http">>, <<"tcp">>, <<"local">>) : n \in ServiceNames} \cup
  {LET f == FullName(n, <<"http">>, <<"tcp">>, <<"local">>) IN SubSeq(f, 1, Len(f) - 1) :
     n \in ServiceNames}

ResolvedRecords ==
  [name : ServiceNames, fullName : FullNames, txtSelf : BOOLEAN, isSelf : {FALSE}]

NoRecord == [name |-> << >>, fullName |-> << >>, txtSelf |-> FALSE, isSelf |-> FALSE]

ZEvent(op, name, rec, res) == [op |-> op, name |-> name, rec |-> rec, res |-> res]

ZeroconfInit ==
  /\ zeroconf = FALSE
  /\ initializationAttempted = FALSE
  /\ listening = FALSE
  /\ callbacks = FALSE
  /\ selfServiceIdentifiers = {}
  /\ selfServiceIdentifierMap = [n \in ServiceNames |-> {}]
  /\ devices = << >>
  /\ published = {}
  /\ remembered = {}
  /\ reported = << >>
  /\ zops = 0
  /\ zlast = ZEvent("init", << >>, NoRecord, FALSE)

\* isInitialized / initialize (part_004 548-593); avail: the native module is
\* there.  The constructor of Zeroconf attaches the device listeners.
isInitialized(avail) ==
  IF zeroconf THEN [zeroconf |-> TRUE, attempted |-> initializationAttempted,
                    listening |-> listening, ok |-> TRUE]
  ELSE IF initializationAttempted
       THEN [zeroconf |-> FALSE, attempted |-> TRUE, listening |-> listening,
             ok |-> FALSE]
  ELSE [zeroconf |-> avail, attempted |-> TRUE,
        listening |-> IF avail THEN TRUE ELSE listening, ok |-> avail]

Step(op, name, rec, res) ==
  /\ zops < MaxZeroconfOps
  /\ zops' = zops + 1
  /\ zlast' = ZEvent(op, name, rec, res)
  /\ UNCHANGED notZeroconf

\* setCallbacks (part_004 660-662) with an onResolved callback
SetCallbacks ==
  /\ Step("setCallbacks", << >>, NoRecord, TRUE)
  /\ callbacks' = TRUE
  /\ UNCHANGED <<zeroconf, initializationAttempted, listening,
                 selfServiceIdentifiers, selfServiceIdentifierMap, devices,
                 published, remembered, reported>>

\* publishService (part_004 771-791); ok: the native call does not throw
PublishService(type, protocol, domain, name) ==
  \E avail \in BOOLEAN, ok \in BOOLEAN :
    LET i   == isInitialized(avail)
        res == i.ok /\ ok
        reg == registerSelfService(selfServiceIdentifiers, selfServiceIdentifierMap,
                                   name, type, protocol, domain)
    IN /\ Step("publishService", name, NoRecord, res)
       /\ zeroconf' = i.zeroconf
       /\ initializationAttempted' = i.attempted
       /\ listening' = i.listening
       /\ IF res
          THEN LET service == [name |-> name, type |-> type, protocol |-> protocol,
                               domain |-> domain]
               IN /\ published' = {s \in published : s.name # name} \cup {service}
                  /\ remembered' = {s \in remembered : s.name # name} \cup {service}
                  /\ selfServiceIdentifiers' = reg.ids
                  /\ selfServiceIdentifierMap' = reg.map
          ELSE UNCHANGED <<published, remembered, selfServiceIdentifiers,
                           selfServiceIdentifierMap>>
       /\ UNCHANGED <<callbacks, devices, reported>>

\* unpublishService (part_004 797-809)
UnpublishService(name) ==
  \E avail \in BOOLEAN, ok \in BOOLEAN :
    LET i   == isInitialized(avail)
        res == i.ok /\ ok
        reg == unregisterSelfService(selfServiceIdentifiers, selfServiceIdentifierMap,
                                     name)
    IN /\ Step("unpublishService", name, NoRecord, res)
       /\ zeroconf' = i.zeroconf
       /\ initializationAttempted' = i.attempted
       /\ listening' = i.listening
       /\ IF res
          THEN /\ published' = {s \in published : s.name # name}
               /\ remembered' = {s \in remembered : s.name # name}
               /\ selfServiceIdentifiers' = reg.ids
               /\ selfServiceIdentifierMap' = reg.map
          ELSE UNCHANGED <<published, remembered, selfServiceIdentifiers,
                           selfServiceIdentifierMap>>
       /\ UNCHANGED <<callbacks, devices, reported>>

\* the 'resolved' listener (part_004 634-638)
Resolved(service) ==
  /\ zeroconf /\ listening
  /\ LET annotatedService == annotateSelfDevice(service, selfServiceIdentifiers) IN
       /\ Step("resolved", service.name, service, TRUE)
       /\ devices' = addDevice(devices, annotatedService)
       /\ reported' = IF callbacks THEN Append(reported, annotatedService) ELSE reported
  /\ UNCHANGED <<zeroconf, initializationAttempted, listening, callbacks,
                 selfServiceIdentifiers, selfServiceIdentifierMap, published,
                 remembered>>

\* the 'remove' listener (part_004 640-646): the first device that has the
\* name as its name or fullName leaves the store
Remove(name) ==
  /\ zeroconf /\ listening
  /\ Step("remove", name, NoRecord, TRUE)
  /\ LET found == {i \in DOMAIN devices :
                     devices[i].name = name \/ devices[i].fullName = name}
     IN devices' = IF found = {} THEN devices
                   ELSE removeDevice(devices,
                                     devices[CHOOSE i \in found :
                                               \A j \in found : i <= j].fullName)
  /\ UNCHANGED <<zeroconf, initializationAttempted, listening, callbacks,
                 selfServiceIdentifiers, selfServiceIdentifierMap, published,
                 remembered, reported>>

\* cleanup (part_004 814-822)
Cleanup ==
  \E avail \in BOOLEAN :
    LET i == isInitialized(avail) IN
      /\ Step("cleanup", << >>, NoRecord, i.ok)
      /\ zeroconf' = i.zeroconf
      /\ initializationAttempted' = i.attempted
      /\ IF i.ok
         THEN /\ listening' = FALSE
              /\ callbacks' = FALSE
              /\ selfServiceIdentifiers' = {}
              /\ selfServiceIdentifierMap' = [n \in ServiceNames |-> {}]
              /\ remembered' = {}
         ELSE /\ listening' = i.listening
              /\ UNCHANGED <<callbacks, selfServiceIdentifiers, selfServiceIdentifierMap,
                             remembered>>
      /\ UNCHANGED <<devices, published, reported>>

\* reAddListeners (part_004 827-832)
ReAddListeners ==
  \E avail \in BOOLEAN :
    LET i == isInitialized(avail) IN
      /\ Step("reAddListeners", << >>, NoRecord, i.ok)
      /\ zeroconf' = i.zeroconf
      /\ initializationAttempted' = i.attempted
      /\ listening' = IF i.ok THEN TRUE ELSE i.listening
      /\ UNCHANGED <<callbacks, selfServiceIdentifiers, selfServiceIdentifierMap,
                     devices, published, remembered, reported>>

ZeroconfNext ==
  \/ SetCallbacks
  \/ \E type \in Types, protocol \in Protocols, domain \in Domains, name \in ServiceNames :
       PublishService(type, protocol, domain, name)
  \/ \E name \in ServiceNames : UnpublishService(name)
  \/ \E service \in ResolvedRecords : Resolved(service)
  \/ \E name \in ServiceNames \cup FullNames : Remove(name)
  \/ Cleanup
  \/ ReAddListeners

\* ======================================================================
\* HTTPSignalingServer: start and stop (src/unnamed/part_002 26-80)
\* ======================================================================
DefaultPort == 8888
Ports == {DefaultPort, DefaultPort + 1}

\* a server made by TcpSocket.createServer: pending until its listen is
\* answered by 'listening' or 'error'; promise is the promise of the start
\* that made it
NewServer(p) == [state |-> "pending", port |-> p, promise |-> "pending"]

LEvent(op, arg, res) == [op |-> op, arg |-> arg, res |-> res]

ServerInit ==
  /\ server = 0
  /\ isRunning = FALSE
  /\ port = DefaultPort
  /\ listeners = << >>
  /\ serverErrors = 0
  /\ lops = 0
  /\ llast = LEvent("init", 0, "")

\* the guard of start (part_002 35-38): it returns at once when this holds
startGuard == isRunning

\* start (part_002 34-68) up to server.listen
Start(p) ==
  /\ lops < MaxServerOps
  /\ lops' = lops + 1
  /\ IF startGuard
     THEN /\ llast' = LEvent("start", p, "resolved")
          /\ UNCHANGED <<server, port, listeners>>
     ELSE /\ llast' = LEvent("start", p, "pending")
          /\ port' = p
          /\ listeners' = Append(listeners, NewServer(p))
          /\ server' = Len(listeners) + 1
  /\ UNCHANGED <<isRunning, serverErrors>>
  /\ UNCHANGED notServer

\* the 'listening' listener (part_002 56-60); a port is bound by one server
Listening(id) ==
  /\ id \in DOMAIN listeners
  /\ listeners[id].state = "pending"
  /\ \A j \in DOMAIN listeners :
       ~(listeners[j].state = "listening" /\ listeners[j].port = listeners[id].port)
  /\ listeners' = [listeners EXCEPT ![id].state = "listening",
                                    ![id].promise = "resolved"]
  /\ isRunning' = TRUE
  /\ llast' = LEvent("listening", id, "")
  /\ UNCHANGED <<server, port, serverErrors, lops>>
  /\ UNCHANGED notServer

\* the 'error' listener (part_002 48-54) when the listen of a server fails
ListenError(id) ==
  /\ id \in DOMAIN listeners
  /\ listeners[id].state = "pending"
  /\ listeners' = [listeners EXCEPT ![id].state = "failed",
                                    ![id].promise = IF isRunning THEN @ ELSE "rejected"]
  /\ serverErrors' = serverErrors + 1
  /\ llast' = LEvent("error", id, "")
  /\ UNCHANGED <<server, isRunning, port, lops>>
  /\ UNCHANGED notServer

\* stop (part_002 73-80)
Stop ==
  /\ lops < MaxServerOps
  /\ lops' = lops + 1
  /\ llast' = LEvent("stop", server, "")
  /\ IF server # 0
     THEN /\ listeners' = [listeners EXCEPT ![server].state = "closed"]
          /\ server' = 0
          /\ isRunning' = FALSE
     ELSE UNCHANGED <<listeners, server, isRunning>>
  /\ UNCHANGED <<port, serverErrors>>
  /\ UNCHANGED notServer

ServerNext ==
  \/ \E p \in Ports : Start(p)
  \/ \E id \in DOMAIN listeners : Listening(id)
  \/ \E id \in DOMAIN listeners : ListenError(id)
  \/ Stop

\* ======================================================================
\* SignalingStore (src/unnamed/part_001 16-71)
\* ======================================================================
MaxStoreOps == 4

DeviceIds   == {"A", "B"}
ListenerIds == {"f", "g"}

GEvent(op, deviceId, arg) == [op |-> op, deviceId |-> deviceId, arg |-> arg]

SignalingStoreInit ==
  /\ messages = [d \in DeviceIds |-> << >>]
  /\ storeListeners = [d \in DeviceIds |-> << >>]
  /\ notified = << >>
  /\ gops = 0
  /\ glast = GEvent("init", "", "")

\* Array.prototype.indexOf followed by splice(index, 1) (part_001 65-68)
splice(list, x) ==
  IF \E i \in DOMAIN list : list[i] = x
  THEN LET index == CHOOSE i \in DOMAIN list :
                      list[i] = x /\ \A j \in 1..(i - 1) : list[j] # x
       IN SubSeq(list, 1, index - 1) \o SubSeq(list, index + 1, Len(list))
  ELSE list

\* removeListener (part_001 63-70): the forEach runs over every entry of
\* this.listeners, and its parameter deviceId hides the argument
removeListener(ls, deviceId, listener) ==
  [d \in DOMAIN ls |-> splice(ls[d], listener)]

GStep(op, deviceId, arg) ==
  /\ gops < MaxStoreOps
  /\ gops' = gops + 1
  /\ glast' = GEvent(op, deviceId, arg)
  /\ UNCHANGED notSignalingStore

\* storeMessage (part_001 23-34)
StoreMessage(deviceId, message) ==
  /\ GStep("storeMessage", deviceId, message)
  /\ messages' = [messages EXCEPT ![deviceId] = Append(@, message)]
  /\ notified' = storeListeners[deviceId]
  /\ UNCHANGED storeListeners

\* clearMessages (part_001 46-48)
ClearMessages(deviceId) ==
  /\ GStep("clearMessages", deviceId, "")
  /\ messages' = [messages EXCEPT ![deviceId] = << >>]
  /\ notified' = << >>
  /\ UNCHANGED storeListeners

\* addListener (part_001 53-58)
AddListener(deviceId, listener) ==
  /\ GStep("addListener", deviceId, listener)
  /\ storeListeners' = [storeListeners EXCEPT ![deviceId] = Append(@, listener)]
  /\ notified' = << >>
  /\ UNCHANGED messages

RemoveListener(deviceId, listener) ==
  /\ GStep("removeListener", deviceId, listener)
  /\ storeListeners' = removeListener(storeListeners, deviceId, listener)
  /\ notified' = << >>
  /\ UNCHANGED messages

SignalingStoreNext ==
  \/ \E deviceId \in DeviceIds, message \in {"offer", "reject"} :
       StoreMessage(deviceId, message)
  \/ \E deviceId \in DeviceIds : ClearMessages(deviceId)
  \/ \E deviceId \in DeviceIds, listener \in ListenerIds : AddListener(deviceId, listener)
  \/ \E deviceId \in DeviceIds, listener \in ListenerIds :
       RemoveListener(deviceId, listener)

Init == SessionInit /\ HttpInit /\ ZeroconfInit /\ ServerInit /\ SignalingStoreInit

\* the sessions of the devices
Spec == Init /\ [][Next]_vars

\* one server and the connections it accepts
SpecHttp == Init /\ [][HttpNext]_vars

\* ---- a client that goes on writing after its request
\* the text written after the request: a second request
FurtherData ==
  {RequestText([method |-> "POST", path |-> "/signaling",
                body |-> Stringify(RejectMessage)])}

\* more text reaches the socket of a connection whose request was dispatched
\* (part_002 102-111: the listener stays registered after a dispatch)
Write(text) ==
  /\ req # NoRequest /\ wire = << >> /\ Len(served) = 1
  /\ wire' = text
  /\ UNCHANGED <<req, requestData, served, conns>>
  /\ UNCHANGED notHttp

HttpStreamNext ==
  \/ \E method \in Methods, path \in Paths, body \in Bodies : Connect(method, path, body)
  \/ \E n \in 1..Len(wire) : Data(n)
  \/ \E text \in FurtherData : Write(text)

\* one server and connections on which more than one request is written
SpecHttpStream == Init /\ [][HttpStreamNext]_vars

\* discovery and the device store of one device
SpecZeroconf == Init /\ [][ZeroconfNext]_vars

\* the life cycle of the signaling server of one device
SpecServer == Init /\ [][ServerNext]_vars

\* ---- the device store by itself (deviceInfo.ts 90-134), under the calls of
\* the discovery listeners and of the device list
\* DeviceStore.getDevice (deviceInfo.ts 117-119)
getDevice(devs, fullName) ==
  IF \E i \in DOMAIN devs : devs[i].fullName = fullName
  THEN devs[CHOOSE i \in DOMAIN devs : devs[i].fullName = fullName]
  ELSE NoRecord

\* DeviceStore.clear (deviceInfo.ts 124-126)
clear(devs) == << >>

StoreUnchanged ==
  UNCHANGED <<zeroconf, initializationAttempted, listening, callbacks,
              selfServiceIdentifiers, selfServiceIdentifierMap, published,
              remembered, reported>>

AddDevice(device) ==
  /\ Step("addDevice", device.fullName, device, TRUE)
  /\ devices' = addDevice(devices, device)
  /\ StoreUnchanged

RemoveDevice(fullName) ==
  /\ Step("removeDevice", fullName, NoRecord, TRUE)
  /\ devices' = removeDevice(devices, fullName)
  /\ StoreUnchanged

Clear ==
  /\ Step("clear", << >>, NoRecord, TRUE)
  /\ devices' = clear(devices)
  /\ StoreUnchanged

StoreNext ==
  \/ \E device \in ResolvedRecords : AddDevice(device)
  \/ \E fullName \in FullNames : RemoveDevice(fullName)
  \/ Clear

SpecStore == Init /\ [][StoreNext]_vars

\* the in-memory signaling store
SpecSignalingStore == Init /\ [][SignalingStoreNext]_vars

\* ======================================================================
\* Properties of the session state machine
\* ======================================================================
callState(p)      == webrtcService[p].callState
isInitiator(p)    == webrtcService[p].isInitiator
remoteDevice(p)   == webrtcService[p].remoteDevice
localStream(p)    == webrtcService[p].localStream
peerConnection(p) == webrtcService[p].peerConnection

\* the step just taken handled event op at device p
Handled(p, op) == last'.p = p /\ last'.op = op

\* C1: startCall(peer) called in Idle gives Calling, role Initiator and
\* remotePeer = peer; called in any other state it fails with 'Call already in
\* progress' and changes neither the service fields, nor the peer connections,
\* nor the suspended calls.
C1_StartCallStep ==
  \A p \in Procs :
    Handled(p, "startCall") =>
      IF callState(p) = "idle"
      THEN /\ webrtcService'[p].callState = "calling"
           /\ webrtcService'[p].isInitiator
           /\ webrtcService'[p].remoteDevice = last'.arg
           /\ thrown'[p] = ""
      ELSE /\ thrown'[p] = CallInProgress
           /\ webrtcService'[p] = webrtcService[p]
           /\ rtc' = rtc /\ tasks' = tasks /\ stopCount' = stopCount
           /\ errLog' = errLog

C1_StartCall == [][C1_StartCallStep]_svars

\* a startCall was refused on a session an inbound offer had made
C1_Witness ==
  \E p \in Procs :
    /\ last = Event(p, "startCall", last.arg, "throw")
    /\ thrown[p] = CallInProgress
    /\ callState(p) \in {"ringing", "connected"}

\* C2: acceptCall() called in a state other than Ringing fails with 'No
\* incoming call to accept', issues no request and changes no session field.
C2_AcceptCallStep ==
  \A p \in Procs :
    (Handled(p, "acceptCall") /\ callState(p) # "ringing") =>
      /\ thrown'[p] = NoIncomingCall
      /\ webrtcService' = webrtcService
      /\ rtc' = rtc /\ tasks' = tasks /\ errLog' = errLog
      /\ sentLog' = sentLog /\ emitted' = emitted

C2_AcceptCall == [][C2_AcceptCallStep]_svars

\* acceptCall was refused on a session that is calling
C2_Witness ==
  \E p \in Procs :
    /\ last = Event(p, "acceptCall", "", "throw")
    /\ thrown[p] = NoIncomingCall
    /\ callState(p) = "calling"

\* C3 (as claimed): on the happy path the receipt of the answer is itself the
\* Calling -> Connected transition of the initiator: an initiator whose peer
\* connection holds the remote answer is Connected.
C3_AnswerReceiptConnects ==
  \A p \in Procs :
    (/\ isInitiator(p) /\ PCOpen(p, peerConnection(p))
     /\ rtc[p][peerConnection(p)].rem = "answer"
     /\ last = Event(p, "setRemote", "answer", "ok") /\ faults = 0)
    => callState(p) = "connected"

\* C3 (amended): startCall leaves the caller Calling and emits the offer once
\* its local description is set; an offer delivered to an idle device without
\* a peer connection makes it Ringing; acceptCall sets Connected once its
\* answer was sent; the answer delivered to the caller is applied as the
\* remote description and leaves the call state as it is; the caller becomes
\* Connected when its peer connection reports 'connected'.
C3_HappyPathStep ==
  \A p \in Procs :
    /\ (Handled(p, "setLocal") /\ last'.res = "ok" /\ remoteDevice(p) # NoDevice) =>
         /\ emitted'[p][last'.arg] = emitted[p][last'.arg] + 1
         /\ [from |-> p, to |-> remoteDevice(p), kind |-> last'.arg,
             initiator |-> isInitiator(p)] \in sentLog'
         /\ webrtcService'[p].callState = callState(p)
    /\ (/\ Handled(p, "message") /\ last'.arg = "offer"
        /\ callState(p) = "idle" /\ peerConnection(p) = 0) =>
         webrtcService'[p].callState = "ringing"
    /\ (Handled(p, "sent") /\ last'.arg = "answer") =>
         webrtcService'[p].callState = "connected"
    /\ (Handled(p, "message") /\ last'.arg = "answer") =>
         webrtcService'[p] = webrtcService[p]
    /\ (Handled(p, "setRemote") /\ last'.arg = "answer") =>
         /\ webrtcService'[p] = webrtcService[p]
         /\ last'.res = "ok" =>
              \E i \in 1..Len(rtc[p]) :
                rtc'[p] = [rtc[p] EXCEPT ![i].rem = "answer"]
    /\ (Handled(p, "connectionstatechange") /\ last'.arg = "connected") =>
         webrtcService'[p].callState = "connected"

C3_HappyPath == [][C3_HappyPathStep]_svars

\* both ends of a call are Connected: the responder after acceptCall, the
\* initiator after its connection reported 'connected' with the answer applied
C3_Witness ==
  \E p \in Procs, q \in Procs :
    /\ p # q
    /\ last = Event(p, "connectionstatechange", "connected", "")
    /\ callState(p) = "connected" /\ isInitiator(p) /\ remoteDevice(p) = q
    /\ rtc[p][peerConnection(p)].rem = "answer"
    /\ callState(q) = "connected" /\ ~isInitiator(q) /\ remoteDevice(q) = p
    /\ emitted[p]["offer"] = 1 /\ emitted[q]["answer"] = 1

\* C4 (as claimed): rejectCall emits exactly one reject and leaves the
\* responder Ended with its local media released; the reject delivered to the
\* caller in Calling moves it to Ended and reports the rejection.
C4_Rejection ==
  \A p \in Procs : \A q \in Procs \ {p} :
    LET offered  == [from |-> p, to |-> q, kind |-> "offer", initiator |-> TRUE]
        rejected == [from |-> q, to |-> p, kind |-> "reject", initiator |-> FALSE]
    IN /\ (/\ last = Event(q, "sent", "reject", "ok") /\ faults = 0
           /\ offered \in sentLog /\ rejected \in sentLog) =>
            /\ callState(q) = "ended"
            /\ localStream(q) = 0
            /\ emitted[q]["reject"] = 1
       /\ (/\ last = Event(p, "message", "reject", q) /\ faults = 0
           /\ offered \in sentLog /\ rejected \in sentLog) =>
            /\ callState(p) = "ended"
            /\ errLog[p] = <<CallRejected>>

\* C5: a probe or a send that fails does not raise into the caller: the
\* failed probe and the failed send of an offer or a candidate leave every
\* service field (in particular Calling) unchanged, report nothing through
\* onError, and the request is not issued again.
C5_UnreachableStep ==
  \A p \in Procs :
    /\ (/\ Handled(p, "sent") /\ last'.res = "fail"
        /\ last'.arg \in {"offer", "ice-candidate"}) =>
         /\ webrtcService'[p] = webrtcService[p]
         /\ errLog' = errLog /\ thrown' = thrown
         /\ emitted' = emitted /\ sentLog' = sentLog
         /\ \A t \in BagToSet(tasks'[p]) : CopiesIn(t, tasks'[p]) <= CopiesIn(t, tasks[p])
    /\ (/\ Handled(p, "probe") /\ last'.res = "fail"
        /\ peerConnection(p) # 0) =>
         /\ webrtcService'[p] = webrtcService[p]
         /\ errLog' = errLog /\ thrown' = thrown
         /\ emitted' = emitted /\ sentLog' = sentLog

C5_Unreachable == [][C5_UnreachableStep]_svars

\* the offer to an address that refuses connections has failed and the caller
\* is still Calling, with nothing reported
C5_Witness ==
  \E p \in Procs :
    /\ last = Event(p, "sent", "offer", "fail")
    /\ callState(p) = "calling" /\ remoteDevice(p) = Unreachable
    /\ errLog[p] = << >> /\ thrown[p] = ""
    /\ emitted[p]["offer"] = 1
    /\ tasks[p] = EmptyBag

\* C6: an ice-candidate delivered to a device that has no peer connection is
\* dropped: no error is reported, no service field, peer connection or
\* suspended call of that device changes; an offer delivered afterwards to
\* the idle device makes it Ringing, with a new peer connection.
C6_EarlyCandidateStep ==
  \A p \in Procs :
    /\ (/\ Handled(p, "message") /\ last'.arg = "ice-candidate"
        /\ peerConnection(p) = 0) =>
         /\ webrtcService'[p] = webrtcService[p]
         /\ rtc'[p] = rtc[p]
         /\ errLog' = errLog /\ thrown' = thrown
         /\ last'.res # p => tasks'[p] = tasks[p]
    /\ (/\ Handled(p, "message") /\ last'.arg = "offer"
        /\ last = Event(p, "message", "ice-candidate", last.res)
        /\ callState(p) = "idle" /\ peerConnection(p) = 0) =>
         /\ webrtcService'[p].callState = "ringing"
         /\ webrtcService'[p].peerConnection = Len(rtc[p]) + 1
         /\ rtc'[p] = Append(rtc[p], NewPC)
         /\ errLog' = errLog

C6_EarlyCandidate == [][C6_EarlyCandidateStep]_svars

\* the candidate of a caller was dropped by an idle device and that caller's
\* offer is still on its way to the device
C6_Witness ==
  \E p \in Procs, q \in Procs :
    /\ last = Event(p, "message", "ice-candidate", q)
    /\ callState(p) = "idle" /\ peerConnection(p) = 0 /\ rtc[p] = << >>
    /\ errLog[p] = << >> /\ tasks[p] = EmptyBag
    /\ \E t \in TasksOf(q) : t.at = "send" /\ t.kind = "offer" /\ t.net = "flight"
                              /\ t.dev = p

\* C7: endCall never fails; an endCall that directly follows an endCall of the
\* same device changes no service field and stops no track; the tracks of the
\* stream held at an endCall are stopped by it, and no stream is ever stopped
\* twice.
C7_EndCallStep ==
  \A p \in Procs :
    Handled(p, "endCall") =>
      /\ thrown'[p] = ""
      /\ errLog' = errLog
      /\ webrtcService'[p].callState = "idle"
      /\ webrtcService'[p].localStream = 0
      /\ localStream(p) # 0 =>
           stopCount' = [stopCount EXCEPT ![localStream(p)] = 1]
      /\ localStream(p) = 0 => stopCount' = stopCount
      /\ last'.res = "again" =>
           /\ webrtcService'[p] = webrtcService[p]
           /\ rtc' = rtc
           /\ stopCount' = stopCount

C7_EndCallIdempotent ==
  /\ [](\A n \in DOMAIN stopCount : stopCount[n] <= 1)
  /\ [][C7_EndCallStep]_svars

\* two endCalls in a row, the first of which released the local stream
C7_Witness ==
  \E p \in Procs :
    /\ last = Event(p, "endCall", "", "again")
    /\ nextStream = 1 /\ stopCount[1] = 1
    /\ callState(p) = "idle" /\ localStream(p) = 0

\* C8 (as claimed): a request sent while the sender's role is Initiator is
\* never an answer and one sent while it is Responder is never an offer; a
\* description applied while the role is Initiator is never an offer and one
\* applied while it is Responder is never an answer.
C8_RoleInvariant ==
  /\ \A m \in sentLog :
       /\ m.kind = "answer" => ~m.initiator
       /\ m.kind = "offer" => m.initiator
  /\ \A a \in appliedLog :
       /\ a.kind = "offer" => ~a.initiator
       /\ a.kind = "answer" => a.initiator

\* ======================================================================
\* Properties of the transport
\* ======================================================================
Routed == {<<"GET", "/signaling">>, <<"POST", "/signaling">>,
           <<"POST", "/call-request">>}

\* the header of the request, its delimiter included, has arrived
HeaderArrived == req # NoRequest /\ Len(wire) <= Len(req.body)

\* the part of the body of the request that dispatch i was given
BodySeen(i) ==
  SubSeq(req.body, 1, served[i].len - (Len(RequestText(req)) - Len(req.body)))

\* C9: a request whose method and path are not GET /signaling, POST
\* /signaling or POST /call-request is answered 404 with the body
\* {"error":"Endpoint not found"}, once, and no callback is invoked.
C9_NotFound ==
  (req # NoRequest /\ <<req.method, req.path>> \notin Routed) =>
    /\ \A i \in DOMAIN served :
         /\ served[i].out.resp.code = 404
         /\ served[i].out.resp.text = "Not Found"
         /\ served[i].out.resp.body = <<"{", "error", ":", "Endpoint not found", "}">>
         /\ served[i].out.cb = "none"
    /\ HeaderArrived => Len(served) = 1

\* PUT /signaling with a well-formed offer has been answered
C9_Witness ==
  /\ req = [method |-> "PUT", path |-> "/signaling",
            body |-> <<"{", "type", ":", "offer", ",", "sdp", ":", "v=0", ",",
                       "timestamp", ":", "1", "}">>]
  /\ wire = << >>
  /\ Len(served) = 1 /\ served[1].out.resp.code = 404

\* the JSON texts among the bodies and their prefixes
JsonTexts ==
  {<<"null">>, <<"1">>,
   <<"{", "type", ":", "offer", ",", "sdp", ":", "v=0", ",", "timestamp", ":", "1", "}">>,
   <<"{", "type", ":", "answer", ",", "sdp", ":", "v=1", ",", "timestamp", ":", "1", "}">>,
   <<"{", "type", ":", "ice-candidate", ",", "candidate", ":", "c1", ",",
     "timestamp", ":", "1", "}">>,
   <<"{", "type", ":", "reject", ",", "timestamp", ":", "1", "}">>,
   <<"{", "type", ":", "call-request", ",", "fromDevice", ":", "B", ",",
     "timestamp", ":", "1", "}">>,
   <<"{", "fromDevice", ":", "B", "}">>}

C11_SelfGuardStep ==
  \A p \in Procs :
    /\ (Handled(p, "startCall") /\ last'.arg = p /\ callState(p) = "idle") =>
         /\ webrtcService'[p] = webrtcService[p]
         /\ tasks'[p] = tasks[p]
         /\ emitted' = emitted
    /\ (/\ Handled(p, "sent") /\ last'.arg = "answer"
        /\ callState(p) = "ringing" /\ remoteDevice(p) = p) =>
         webrtcService'[p].callState # "connected"

C11_SelfGuard == [][C11_SelfGuardStep]_svars

\* C12: a message of each kind, serialized by the sender with its timestamp
\* and posted to /signaling, is handed to onMessage as an object with the same
\* members in the same order and with the same values; it is handed over
\* whenever the whole request has arrived by the time it is dispatched.
C12_RoundTrip ==
  \A m \in SignalingMessages :
    (req.method = "POST" /\ req.path = "/signaling" /\ req.body = Stringify(m)) =>
      \A i \in DOMAIN served :
        /\ served[i].out.cb = "onMessage" =>
             /\ served[i].out.arg.kind = "object"
             /\ served[i].out.arg.obj = m
             /\ \A k \in {"type", "sdp", "candidate", "fromDevice", "timestamp"} :
                  Get(served[i].out.arg.obj, k) = Get(m, k)
        /\ served[i].len = Len(RequestText(req)) => served[i].out.cb = "onMessage"

\* an ice-candidate message has arrived whole and was handed to onMessage
C12_Witness ==
  /\ req.method = "POST" /\ req.path = "/signaling"
  /\ req.body = <<"{", "type", ":", "ice-candidate", ",", "candidate", ":", "c1", ",",
                  "timestamp", ":", "1", "}">>
  /\ Len(served) = 1 /\ served[1].len = Len(RequestText(req))
  /\ served[1].out.cb = "onMessage"
  /\ Get(served[1].out.arg.obj, "candidate") = "c1"

\* ======================================================================
\* Properties of discovery
\* ======================================================================
\* the record is resolved with a name or fullName that service was
\* registered with
MatchesService(rec, service) ==
  LET type     == service.type[Len(service.type)]
      fullName == <<service.name, ".", "_", type, ".", "_", "tcp", ".", "local", ".">>
  IN \/ rec.name = service.name
     \/ rec.fullName \in {service.name, fullName, SubSeq(fullName, 1, 9)}

\* the record resolved in this step is in the store, tagged, and was given
\* tagged to the onResolved callback if there is one
StoredAndReportedAsSelf ==
  LET tagged == [zlast'.rec EXCEPT !.isSelf = TRUE, !.txtSelf = TRUE]
  IN /\ \E i \in DOMAIN devices' : devices'[i] = tagged
     /\ \A i \in DOMAIN devices' :
          devices'[i].fullName = tagged.fullName => devices'[i] = tagged
     /\ callbacks => reported' = Append(reported, tagged)

\* C13 (as claimed): from a successful publishService of a name until that
\* name is unpublished, every record resolved with a name or fullName that is
\* one of its identifiers is stored and reported with isSelf = true.
C13_SelfTaggingStep ==
  \A service \in published :
    (zlast'.op = "resolved" /\ MatchesService(zlast'.rec, service)) =>
      StoredAndReportedAsSelf

C13_SelfTaggingUntilCleanupStep ==
  \A service \in remembered :
    (zlast'.op = "resolved" /\ MatchesService(zlast'.rec, service)) =>
      StoredAndReportedAsSelf

C14_RetroactiveStep ==
  (/\ zlast'.op = "resolved"
   /\ \E service \in remembered : MatchesService(zlast'.rec, service)) =>
    \A i \in DOMAIN devices :
      (devices[i].fullName = zlast'.rec.fullName /\ ~devices[i].isSelf) =>
        /\ Len(devices') = Len(devices)
        /\ devices'[i] = [zlast'.rec EXCEPT !.isSelf = TRUE, !.txtSelf = TRUE]

C15_LifecycleStep ==
  /\ (llast'.op = "start" /\ isRunning) =>
       /\ llast'.res = "resolved"
       /\ UNCHANGED <<server, isRunning, port, listeners, serverErrors>>
  /\ (llast'.op = "stop" /\ server = 0) =>
       UNCHANGED <<server, isRunning, port, listeners, serverErrors>>
  /\ llast'.op = "stop" => ~isRunning'
  /\ (llast'.op = "start" /\ llast.op = "stop") =>
       /\ server' = Len(listeners) + 1
       /\ listeners' = Append(listeners, NewServer(llast'.arg))
       /\ port' = llast'.arg

C15_Lifecycle == [][C15_LifecycleStep]_lvars

\* ======================================================================
\* Properties of inbound messages
\* ======================================================================
\* C16 (as claimed): an offer delivered to a session that is Idle makes it
\* Ringing with role Responder and the sender as remote device, and the offer
\* is applied as the remote description of its peer connection; Ringing is
\* reached in the step of the delivery, whatever the media acquisition does.
C16_IdleOfferStep ==
  \A p \in Procs :
    (Handled(p, "message") /\ last'.arg = "offer" /\ callState(p) = "idle") =>
      /\ webrtcService'[p].callState = "ringing"
      /\ ~webrtcService'[p].isInitiator
      /\ webrtcService'[p].remoteDevice = last'.res
      /\ \E t \in BagToSet(tasks'[p]) :
           /\ t.at = "setRemote" /\ t.kind = "offer"
           /\ t.pc = webrtcService'[p].peerConnection

C16_IdleOffer == [][C16_IdleOfferStep]_svars

\* C17 (as claimed): an offer delivered to a session that is Calling, Ringing
\* or Connected leaves the call state as it is, at its delivery and when its
\* description has been handled, and it is not applied over a remote offer
\* the peer connection already holds.
C17_BusyOfferStep ==
  \A p \in Procs :
    /\ (/\ Handled(p, "message") /\ last'.arg = "offer"
        /\ callState(p) \in {"calling", "ringing", "connected"}) =>
         webrtcService'[p].callState = callState(p)
    /\ (/\ Handled(p, "setRemote") /\ last'.arg = "offer"
        /\ callState(p) \in {"calling", "ringing", "connected"}) =>
         /\ webrtcService'[p].callState = callState(p)
         /\ last'.res = "ok" => rtc'[p] # rtc[p]

C17_BusyOffer == [][C17_BusyOfferStep]_svars

\* C18 (as claimed): a reject delivered to a session that is not both Calling
\* and Initiator is dropped: the service fields, the peer connections and the
\* media tracks are unchanged and no error is reported.
C18_RejectDroppedStep ==
  \A p \in Procs :
    (/\ Handled(p, "message") /\ last'.arg = "reject"
     /\ ~(callState(p) = "calling" /\ isInitiator(p))) =>
      /\ webrtcService'[p] = webrtcService[p]
      /\ rtc'[p] = rtc[p]
      /\ stopCount' = stopCount
      /\ errLog'[p] = errLog[p]

C18_RejectDropped == [][C18_RejectDroppedStep]_svars

\* C19: an answer, a reject or an ice-candidate delivered to an Idle session
\* that has no peer connection is dropped: no field of the session changes
\* (setCallState, the only caller of onCallStateChange, does not run), no
\* error is reported, no track is stopped, no handling of the message is left
\* suspended, and the sender's POST is still answered with 200.
C19_DroppedSilentlyStep ==
  \A p \in Procs :
    (/\ Handled(p, "message") /\ last'.arg \in {"answer", "reject", "ice-candidate"}
     /\ callState(p) = "idle" /\ peerConnection(p) = 0) =>
      /\ webrtcService'[p] = webrtcService[p]
      /\ rtc'[p] = rtc[p]
      /\ errLog'[p] = errLog[p]
      /\ stopCount' = stopCount
      /\ \A t \in BagToSet(tasks'[p]) :
           t.op \in {"process", "incoming"} =>
             CopiesIn(t, tasks'[p]) = CopiesIn(t, tasks[p])
      /\ \E t \in BagToSet(tasks'[last'.res]) :
           t.at = "send" /\ t.kind = last'.arg /\ t.net = "ok"

C19_DroppedSilently == [][C19_DroppedSilentlyStep]_svars

\* an answer or a candidate has just been dropped by an Idle session that
\* never had a peer connection, and its sender holds the 200 response
C19_Witness ==
  /\ last.op = "message" /\ last.arg \in {"answer", "ice-candidate"}
  /\ last.p \in Procs /\ last.res \in Procs /\ last.res # last.p
  /\ callState(last.p) = "idle" /\ peerConnection(last.p) = 0
  /\ errLog[last.p] = <<>>
  /\ \E t \in TasksOf(last.res) :
       t.at = "send" /\ t.kind = last.arg /\ t.net = "ok"

\* C20 (as claimed): whenever the acquisition of local media fails, during
\* startCall, during acceptCall or in the background acquisition started by
\* an inbound offer, the session moves to Ended and the media-access error is
\* reported through the error callback.
C20_MediaFailureStep ==
  \A p \in Procs :
    (Handled(p, "getUserMedia") /\ last'.res = "fail") =>
      /\ webrtcService'[p].callState = "ended"
      /\ errLog'[p] = Append(errLog[p], MediaAccess)

C20_MediaFailure == [][C20_MediaFailureStep]_svars

\* C21 (as claimed): when setRemoteDescription rejects a received offer or
\* answer, the session moves to Ended and the error is reported through the
\* error callback.
C21_NegotiationFailureStep ==
  \A p \in Procs :
    (Handled(p, "setRemote") /\ last'.res = "fail") =>
      /\ webrtcService'[p].callState = "ended"
      /\ errLog'[p] = Append(errLog[p], CollabError)

C21_NegotiationFailure == [][C21_NegotiationFailureStep]_svars

\* C22: an ice-candidate delivered to a session that is Calling, Ringing or
\* Connected changes neither the call state, nor the role, nor the remote
\* device, at its delivery and when addIceCandidate settles, whether the
\* collaborator accepts the candidate or refuses it; nothing is reported
\* through the error callback.
C22_CandidateFrameStep ==
  \A p \in Procs :
    /\ (/\ Handled(p, "message") /\ last'.arg = "ice-candidate"
        /\ callState(p) \in {"calling", "ringing", "connected"}) =>
         /\ webrtcService'[p] = webrtcService[p]
         /\ errLog'[p] = errLog[p]
    /\ Handled(p, "addIce") =>
         /\ webrtcService'[p] = webrtcService[p]
         /\ errLog'[p] = errLog[p]

C22_CandidateFrame == [][C22_CandidateFrameStep]_svars

\* the collaborator has just refused a candidate of a session in progress,
\* and no error was ever reported there
C22_Witness ==
  /\ last.op = "addIce" /\ last.res = "fail" /\ last.p \in Procs
  /\ callState(last.p) \in {"calling", "ringing", "connected"}
  /\ errLog[last.p] = <<>>

\* C23 (as claimed): an ice-candidate whose sender, the address the transport
\* observed, is not the remote device of the session is not handed to the
\* collaborator: no addIceCandidate call is started for it.
C23_SenderCheckedStep ==
  \A p \in Procs :
    (/\ Handled(p, "message") /\ last'.arg = "ice-candidate"
     /\ last'.res # remoteDevice(p)) =>
      \A t \in BagToSet(tasks'[p]) :
        t.at = "addIce" => CopiesIn(t, tasks'[p]) = CopiesIn(t, tasks[p])

C23_SenderChecked == [][C23_SenderCheckedStep]_svars

\* C24 (as claimed): when the collaborator reports the connection state
\* 'disconnected' or 'failed' to a session that is Calling, Ringing or
\* Connected, the session moves to Ended and its local media is released.
C24_TransportFailureStep ==
  \A p \in Procs :
    (/\ Handled(p, "connectionstatechange") /\ last'.arg = "failed"
     /\ callState(p) \in {"calling", "ringing", "connected"}) =>
      /\ webrtcService'[p].callState = "ended"
      /\ webrtcService'[p].localStream = 0
      /\ stopCount' = StopTracks(stopCount, localStream(p))

C24_TransportFailure == [][C24_TransportFailureStep]_svars

\* C25 (as claimed): endCall() on a Connected session leaves it in the
\* terminal state Ended, not in Idle, with the local media released and the
\* peer connection closed; a startCall that follows is refused.
C25_EndCallTerminalStep ==
  \A p \in Procs :
    /\ (Handled(p, "endCall") /\ callState(p) = "connected") =>
         /\ webrtcService'[p].callState = "ended"
         /\ webrtcService'[p].localStream = 0
         /\ webrtcService'[p].peerConnection = 0
         /\ stopCount' = StopTracks(stopCount, localStream(p))
    /\ (Handled(p, "startCall") /\ callState(p) = "ended") =>
         thrown'[p] = CallInProgress

C25_EndCallTerminal == [][C25_EndCallTerminalStep]_svars

\* C26 (as claimed): once a well-formed POST /signaling request has arrived,
\* in whatever chunks, onMessage has been invoked exactly once, with the
\* message, and the dispatch that invoked it wrote a 200 response naming the
\* kind received.
C26_ChunkedDispatch ==
  \A m \in SignalingMessages :
    (/\ req.method = "POST" /\ req.path = "/signaling"
     /\ req.body = Stringify(m) /\ wire = << >>) =>
      /\ Cardinality({i \in DOMAIN served : served[i].out.cb = "onMessage"}) = 1
      /\ \A i \in DOMAIN served :
           served[i].out.cb = "onMessage" =>
             /\ served[i].out.arg.obj = m
             /\ served[i].out.resp.code = 200
             /\ served[i].out.resp.body =
                  Stringify(Obj2("status", "received", "type", Get(m, "type")))

\* C27 (as claimed): on one connection the transport dispatches at most one
\* request and writes one response, whatever arrives after the first
\* delimiter.
C27_OneRequest == Len(served) <= 1

\* C28 (as claimed): a POST /call-request whose body, as the transport has it
\* when it dispatches the request, is a JSON text invokes onConnectionRequest
\* and is answered 200.
C28_CallRequest ==
  (req.method = "POST" /\ req.path = "/call-request") =>
    \A i \in DOMAIN served :
      Trim(BodySeen(i)) \in JsonTexts =>
        /\ served[i].out.cb = "onConnectionRequest"
        /\ served[i].out.resp.code = 200

\* the JSON texts among the bodies that are not a SignalingMessage:
\* null, a number, an object without a type
NotSignalingMessages ==
  {<<"null">>, <<"1">>, <<"{", "fromDevice", ":", "B", "}">>}

\* C29 (as claimed): a POST /signaling whose body is a JSON text but not a
\* SignalingMessage is answered 400 and is not passed to onMessage.
C29_OnlyValidMessages ==
  (req.method = "POST" /\ req.path = "/signaling") =>
    \A i \in DOMAIN served :
      Trim(BodySeen(i)) \in NotSignalingMessages =>
        /\ served[i].out.resp.code = 400
        /\ served[i].out.cb # "onMessage"

\* C30: the turn that delivers an offer writes its 200 response: the fetch of
\* the sender holds the response at the end of that turn, while the receiver
\* has acquired no media and applied no description in it; the acquisition
\* and the setRemoteDescription the offer started are still suspended.
C30_AckBeforeWorkStep ==
  \A q \in Procs :
    (Handled(q, "message") /\ last'.arg = "offer") =>
      /\ \E t \in BagToSet(tasks'[last'.res]) :
           t.at = "send" /\ t.kind = "offer" /\ t.net = "ok"
      /\ webrtcService'[q].localStream = localStream(q)
      /\ \A i \in DOMAIN rtc[q] : rtc'[q][i] = rtc[q][i]
      /\ \A i \in DOMAIN rtc'[q] \ DOMAIN rtc[q] : rtc'[q][i] = NewPC

C30_AckBeforeWork == [][C30_AckBeforeWorkStep]_svars

\* an offer has just been acknowledged to its sender while the receiver's
\* media acquisition and setRemoteDescription are both still suspended
C30_Witness ==
  /\ last.op = "message" /\ last.arg = "offer"
  /\ last.p \in Procs /\ last.res \in Procs /\ last.res # last.p
  /\ \E t \in TasksOf(last.res) : t.at = "send" /\ t.kind = "offer" /\ t.net = "ok"
  /\ \E t \in TasksOf(last.p) : t.op = "incoming" /\ t.at = "media"
  /\ \E t \in TasksOf(last.p) : t.at = "setRemote" /\ t.kind = "offer"
  /\ localStream(last.p) = 0

\* C31 (as claimed): while a startCall, acceptCall or rejectCall of a session
\* is suspended at one of its awaits, no user action, inbound message or
\* connection-state callback changes a field of that session.
C31_SingleWriterStep ==
  \A p \in Procs :
    (/\ \E op \in {"startCall", "acceptCall", "rejectCall", "endCall", "message",
                   "connectionstatechange"} : Handled(p, op)
     /\ \E t \in TasksOf(p) : t.op \in {"startCall", "acceptCall", "rejectCall"}) =>
      webrtcService'[p] = webrtcService[p]

C31_SingleWriter == [][C31_SingleWriterStep]_svars

\* the records the store holds under an identifier
Stored(devs, fullName) ==
  {devs[i] : i \in {j \in DOMAIN devs : devs[j].fullName = fullName}}

\* C32: after every addDevice, removeDevice and clear the store holds at most
\* one record per fullName; under a fullName it holds the record just added,
\* nothing after a removeDevice of it or a clear, and otherwise what it held
\* before; getDevice returns that record, or nothing.
C32_UpsertStep ==
  /\ \A i, j \in DOMAIN devices' :
       devices'[i].fullName = devices'[j].fullName => i = j
  /\ \A f \in FullNames :
       /\ Stored(devices', f) =
            CASE zlast'.op = "addDevice" /\ zlast'.name = f -> {zlast'.rec}
              [] zlast'.op = "removeDevice" /\ zlast'.name = f -> {}
              [] zlast'.op = "clear" -> {}
              [] OTHER -> Stored(devices, f)
       /\ getDevice(devices', f) \in Stored(devices', f) \cup {NoRecord}
       /\ getDevice(devices', f) = NoRecord <=> Stored(devices', f) = {}

C32_Upsert == [][C32_UpsertStep]_zvars

\* three calls have left two records, and the one added last took the place
\* of the first: it replaced the record stored under its fullName
C32_Witness ==
  /\ zops = 3 /\ zlast.op = "addDevice"
  /\ Len(devices) = 2 /\ devices[1] = zlast.rec
  /\ getDevice(devices, zlast.name) = zlast.rec

\* C33 (as claimed): every stream obtained from getUserMedia and not yet
\* stopped is the local stream of a session, so that a session never has a
\* second stream acquired and no endCall is left without the means to
\* release a stream.
C33_ExclusiveMedia ==
  \A stream \in 1..nextStream :
    stopCount[stream] = 0 => \E p \in Procs : localStream(p) = stream

\* C34 (as claimed): a session that is Idle with no call of it suspended has
\* no local stream, no peer connection and no remote device, and its
\* initiator flag is false.
C34_IdleClean ==
  \A p \in Procs :
    (callState(p) = "idle" /\ TasksOf(p) = {}) =>
      /\ localStream(p) = 0
      /\ peerConnection(p) = 0
      /\ remoteDevice(p) = NoDevice
      /\ ~isInitiator(p)

\* C35 (as claimed): an answer or a reject that a Ringing session emits is
\* addressed to a device that has sent an offer to that session.
C35_ReplyToCallerStep ==
  \A e \in sentLog' \ sentLog :
    (e.kind \in {"answer", "reject"} /\ callState(e.from) = "ringing") =>
      \E o \in sentLog : o.kind = "offer" /\ o.to = e.from /\ o.from = e.to

C35_ReplyToCaller == [][C35_ReplyToCallerStep]_svars

\* C36 (as claimed): an acceptCall invoked while an earlier acceptCall of the
\* session is suspended creates no answer: when createAnswer resolves for an
\* acceptCall, no other acceptCall of the session holds an answer it created.
C36_NoSecondAnswerStep ==
  \A p \in Procs :
    (Handled(p, "createAnswer") /\ last'.res = "ok") =>
      ~\E t \in TasksOf(p) : t.op = "acceptCall" /\ t.at = "setLocal"

C37_OneServer ==
  \A id \in DOMAIN listeners :
    listeners[id].state \in {"pending", "listening"} => id = server

\* C38 (as claimed): after a successful unpublishService(name) no identifier
\* that a publishService of that name can have registered is left in the set
\* of self identifiers; and a record without txt.self that matches no
\* published service is stored without the isSelf tag.
C38_UnpublishClearsStep ==
  /\ (zlast'.op = "unpublishService" /\ zlast'.res) =>
       \A type \in Types, protocol \in Protocols, domain \in Domains :
         Identifiers(zlast'.name, type, protocol, domain)
           \cap selfServiceIdentifiers' = {}
  /\ (/\ zlast'.op = "resolved" /\ ~zlast'.rec.txtSelf
      /\ ~\E service \in published : MatchesService(zlast'.rec, service)) =>
       \E i \in DOMAIN devices' : devices'[i] = zlast'.rec

C38_UnpublishClears == [][C38_UnpublishClearsStep]_zvars

\* ======================================================================
\* Properties of the signaling store
\* ======================================================================
\* C39 (as claimed): removeListener(deviceId, listener) leaves the listener
\* lists of every other device id as they were.
C39_RemoveListenerFrameStep ==
  glast'.op = "removeListener" =>
    \A d \in DeviceIds :
      d # glast'.deviceId => storeListeners'[d] = storeListeners[d]

C39_RemoveListenerFrame == [][C39_RemoveListenerFrameStep]_gvars

====
